---- MODULE Spec2Model ----
(***************************************************************************)
(* Model of the curriculum data loading pipeline (packages/server/src/data) *)
(* and of the process bootstrap that serves the resulting store.            *)
(*                                                                          *)
(* Conventions.  A JSON value is a pair <<tag, text>>; a JS Map is a        *)
(* sequence of [k, v] entries in insertion order; a Result is a record      *)
(* [success, data, error]; a file path is the sequence of its components.   *)
(* Error messages are kept as the template that produced them plus the      *)
(* strings interpolated into it, so that "the message contains X" can be    *)
(* decided.  Identifiers are chosen so that none is a substring of another  *)
(* or of a template, except the empty identifier, which every string        *)
(* contains.                                                                *)
(***************************************************************************)
EXTENDS Integers, Sequences, FiniteSets, TLC

(***************************************************************************)
(* Bounds                                                                   *)
(***************************************************************************)
MaxSuperblocks == 2
MaxNames == 3
MaxChallenges == 2
MaxRequired == 2
MaxCalls == 2

(***************************************************************************)
(* Generic helpers                                                          *)
(***************************************************************************)
SeqUpTo(S, n) == UNION {[1..k -> S] : k \in 0..n}

Range(s) == {s[i] : i \in DOMAIN s}

RECURSIVE Flatten(_)
Flatten(ss) == IF ss = <<>> THEN <<>> ELSE Head(ss) \o Flatten(Tail(ss))

(***************************************************************************)
(* JSON / JS values                                                         *)
(***************************************************************************)
JStr(s) == <<"string", s>>
JNum(s) == <<"number", s>>
JBool(s) == <<"boolean", s>>
JNull == <<"null", "null">>
JUndefined == <<"undefined", "undefined">>

TypeOf(v) == IF v[1] = "null" THEN "object" ELSE v[1]

\* String(v), as a template literal interpolates it
JsString(v) == v[2]

\* JS truthiness of a primitive
Truthy(v) ==
    CASE v[1] = "string" -> v[2] # ""
      [] v[1] = "number" -> v[2] # "0"
      [] v[1] = "boolean" -> v[2] = "true"
      [] OTHER -> FALSE

\* a ?? b
Coalesce(v, d) == IF v = JUndefined \/ v = JNull THEN d ELSE v

(***************************************************************************)
(* JS Map: entries in insertion order, keys unique                          *)
(***************************************************************************)
EmptyMap == <<>>

MapKeys(m) == {m[i].k : i \in DOMAIN m}

MapHas(m, key) == key \in MapKeys(m)

MapGet(m, key) == m[CHOOSE i \in DOMAIN m : m[i].k = key].v

MapSet(m, key, val) ==
    IF MapHas(m, key)
    THEN [i \in DOMAIN m |-> IF m[i].k = key THEN [k |-> key, v |-> val] ELSE m[i]]
    ELSE Append(m, [k |-> key, v |-> val])

MapSize(m) == Len(m)

(***************************************************************************)
(* DataValidationError and Result                                           *)
(***************************************************************************)
NoField == <<>>

DataValidationError(text, parts, filePath, field) ==
    [text |-> text, parts |-> parts, filePath |-> filePath, field |-> field]

NoError == DataValidationError("<none>", <<>>, <<>>, NoField)

\* message.includes(s)
MessageContains(err, s) == s = "" \/ s \in Range(err.parts)

Ok(data) == [success |-> TRUE, data |-> data, error |-> NoError]

Fail(err, noData) == [success |-> FALSE, data |-> noData, error |-> err]

(***************************************************************************)
(* The data directory                                                       *)
(***************************************************************************)
DataPath == "data"

SuperblockNames == {"", "sbA", "sbB"}

BlockNames == {"", "blk1", "blk2"}

\* a file on disk: absent, not parseable, or holding a JSON document
FileMissing(dummy) == [state |-> "missing", data |-> dummy]
FileMalformed(dummy) == [state |-> "malformed", data |-> dummy]
FileOk(data) == [state |-> "ok", data |-> data]

\* the message of the error fs.readFile / JSON.parse raises
IoMessage(file, filePath) ==
    IF file.state = "missing"
    THEN <<"ENOENT: no such file or directory, open">> \o filePath
    ELSE <<"Unexpected token in JSON">>

(***************************************************************************)
(* Raw JSON documents (types.ts, SECTION 1)                                 *)
(***************************************************************************)
RawCurriculum(superblockNames, certifications) ==
    [superblocks |-> superblockNames, certifications |-> certifications]

RawModule(dashedName, blockNames, moduleType) ==
    [dashedName |-> dashedName, blocks |-> blockNames,
     moduleType |-> moduleType, comingSoon |-> JUndefined]

RawChapter(dashedName, modules) ==
    [dashedName |-> dashedName, modules |-> modules, comingSoon |-> JUndefined]

\* hasBlocks / hasChapters: the property is present (an array, hence truthy)
RawSuperblock(name, hasBlocks, blockNames, hasChapters, chapters) ==
    [name |-> name, hasBlocks |-> hasBlocks, blocks |-> blockNames,
     hasChapters |-> hasChapters, chapters |-> chapters]

\* the literals of the raw enum types
RawBlockLayouts ==
    {"link", "challenge-list", "challenge-grid", "dialogue-grid", "project-list",
     "legacy-challenge-list", "legacy-challenge-grid", "legacy-link"}

RawBlockLabels ==
    {"lecture", "lab", "workshop", "review", "quiz", "exam", "warm-up", "practice", "learn"}

\* an entry of challengeOrder: null, or an object
RawChallenge(id, title, description) ==
    [isNull |-> FALSE, id |-> id, title |-> title, description |-> description]

NullChallenge ==
    [isNull |-> TRUE, id |-> JUndefined, title |-> JUndefined, description |-> JUndefined]

\* an entry of required: null, or an object
RawRequiredResource(src, link) == [isNull |-> FALSE, src |-> src, link |-> link]

NullResource == [isNull |-> TRUE, src |-> JUndefined, link |-> JUndefined]

\* the required property: absent, an array of entries, or some other value
RequiredAbsent == [tag |-> "undefined", items |-> <<>>]
RequiredArray(items) == [tag |-> "array", items |-> items]
RequiredOther == [tag |-> "string", items |-> <<>>]

RawBlock(name, challengeOrder, blockLayout, blockLabel, required, template, flag) ==
    [name |-> name, dashedName |-> "declared-name", helpCategory |-> "HTML-CSS",
     challengeOrder |-> challengeOrder,
     blockLayout |-> blockLayout, blockLabel |-> blockLabel,
     isUpcomingChange |-> JBool("false"),
     usesMultifileEditor |-> flag, hasEditableBoundaries |-> flag,
     disableLoopProtectTests |-> flag, disableLoopProtectPreview |-> flag,
     required |-> required, template |-> template]

NoCurriculum == RawCurriculum(<<>>, <<>>)
NoSuperblock == RawSuperblock(JUndefined, FALSE, <<>>, FALSE, <<>>)
NoBlock == RawBlock("", <<>>, JUndefined, JUndefined, RequiredAbsent, JUndefined, JUndefined)

(***************************************************************************)
(* File Reader (loader.ts)                                                  *)
(***************************************************************************)
CurriculumPath == <<DataPath, "curriculum.json">>
SuperblockPath(dashedName) == <<DataPath, "superblocks", dashedName \o ".json">>
BlockPath(dashedName) == <<DataPath, "blocks", dashedName \o ".json">>

loadCurriculumFile(file) ==
    IF file.state = "ok"
    THEN Ok(file.data)
    ELSE Fail(DataValidationError("Failed to load curriculum.json",
                                  IoMessage(file, CurriculumPath),
                                  CurriculumPath, NoField), NoCurriculum)

loadSuperblockFile(files, dashedName) ==
    LET filePath == SuperblockPath(dashedName)
        file == files[dashedName]
    IN  IF file.state = "ok"
        THEN Ok(file.data)
        ELSE Fail(DataValidationError("Failed to load superblock",
                                      <<dashedName>> \o IoMessage(file, filePath),
                                      filePath, NoField), NoSuperblock)

\* loadBlockFile reporting the directory it read from instead of the file
loadBlockFile_DirectoryPath(files, dashedName) ==
    LET filePath == BlockPath(dashedName)
        file == files[dashedName]
    IN  IF file.state = "ok"
        THEN Ok(file.data)
        ELSE Fail(DataValidationError("Failed to load block",
                                      <<dashedName>> \o IoMessage(file, filePath),
                                      <<DataPath, "blocks">>, NoField), NoBlock)

loadBlockFile(files, dashedName) ==
    LET filePath == BlockPath(dashedName)
        file == files[dashedName]
    IN  IF file.state = "ok"
        THEN Ok(file.data)
        ELSE Fail(DataValidationError("Failed to load block",
                                      <<dashedName>> \o IoMessage(file, filePath),
                                      filePath, NoField), NoBlock)

\* the loop that builds the Map once every read has succeeded
RECURSIVE BuildMap(_, _, _, _)
BuildMap(names, results, i, map) ==
    IF i > Len(names) THEN map
    ELSE BuildMap(names, results, i + 1,
                  IF names[i] # "" /\ results[i].success
                  THEN MapSet(map, names[i], results[i].data)
                  ELSE map)

\* what loadAllSuperblocks / loadAllBlocks return once Promise.all has
\* resolved to results (results[i] is the outcome of reading names[i])
BulkReturn(names, results) ==
    LET failed == {i \in DOMAIN results : ~results[i].success}
    IN  IF failed # {}
        THEN Fail(results[CHOOSE i \in failed : \A j \in failed : i <= j].error, EmptyMap)
        ELSE Ok(BuildMap(names, results, 1, EmptyMap))

loadAllSuperblocks(files, superblockNames) ==
    BulkReturn(superblockNames,
               [i \in DOMAIN superblockNames |-> loadSuperblockFile(files, superblockNames[i])])

loadAllBlocks(files, blockNames) ==
    BulkReturn(blockNames,
               [i \in DOMAIN blockNames |-> loadBlockFile(files, blockNames[i])])

(***************************************************************************)
(* Reference & Shape Validator (validators.ts)                              *)
(***************************************************************************)
\* VALID_BLOCK_LAYOUTS with a literal the mapping table does not have
VALID_BLOCK_LAYOUTS_Extra ==
    <<"link", "challenge-list", "challenge-grid", "dialogue-grid", "project-list",
      "legacy-challenge-list", "legacy-challenge-grid", "legacy-link", "not-a-real-layout">>

VALID_BLOCK_LAYOUTS ==
    <<"link", "challenge-list", "challenge-grid", "dialogue-grid", "project-list",
      "legacy-challenge-list", "legacy-challenge-grid", "legacy-link">>

VALID_BLOCK_LABELS ==
    <<"lecture", "lab", "workshop", "review", "quiz", "exam", "warm-up",
      "practice", "learn">>

\* Array.prototype.includes on an array of strings
Includes(arr, v) == v[1] = "string" /\ v[2] \in Range(arr)

\* `${i}` for a 0-based index i, given the 1-based position
IndexString(pos) == <<"0", "1", "2", "3", "4", "5", "6", "7", "8", "9">>[pos]

ValidatedOk == Ok("void")

ValidationFail(err) == Fail(err, "void")

validateCurriculumReferences == ValidatedOk

\* the block references the validator collects from one superblock
BlockReferences(superblock) ==
    (IF superblock.hasBlocks THEN superblock.blocks ELSE <<>>)
    \o (IF superblock.hasChapters
        THEN Flatten([c \in DOMAIN superblock.chapters |->
                 Flatten([m \in DOMAIN superblock.chapters[c].modules |->
                     superblock.chapters[c].modules[m].blocks])])
        ELSE <<>>)

validateSuperblockReferences(superblocks, blocks) ==
    LET Missing(i) == LET refs == BlockReferences(superblocks[i].v)
                          known == MapKeys(blocks)
                      IN  {j \in DOMAIN refs : refs[j] \notin known}
        bad == {i \in DOMAIN superblocks : Missing(i) # {}}
    IN  IF bad = {} THEN ValidatedOk
        ELSE LET i == CHOOSE x \in bad : \A y \in bad : x <= y
                 j == CHOOSE x \in Missing(i) : \A y \in Missing(i) : x <= y
                 superblockName == superblocks[i].k
                 blockName == BlockReferences(superblocks[i].v)[j]
             IN  ValidationFail(DataValidationError(
                     "Block referenced in superblock but file not found",
                     <<blockName, superblockName>>,
                     <<"superblocks", superblockName \o ".json">>, <<"blocks">>))

\* the loop over block.required: the first entry that is rejected, if any
RECURSIVE ValidateRequired(_, _, _)
ValidateRequired(items, i, blockPath) ==
    IF i > Len(items) THEN ValidatedOk
    ELSE IF items[i].isNull
    THEN ValidationFail(DataValidationError("required[i] is null or undefined",
             <<IndexString(i)>>, blockPath, <<"required", IndexString(i)>>))
    ELSE LET hasSrc == TypeOf(items[i].src) = "string"
             hasLink == TypeOf(items[i].link) = "string"
         IN  IF ~hasSrc /\ ~hasLink
             THEN ValidationFail(DataValidationError(
                      "required[i] must have either src or link field of type string",
                      <<IndexString(i)>>, blockPath, <<"required", IndexString(i)>>))
             ELSE ValidateRequired(items, i + 1, blockPath)

\* validateBlockEnums without the blockLabel check
validateBlockEnums_LayoutOnly(block, blockPath) ==
    IF ~Includes(VALID_BLOCK_LAYOUTS, block.blockLayout)
    THEN ValidationFail(DataValidationError("Invalid blockLayout value",
             <<JsString(block.blockLayout)>> \o VALID_BLOCK_LAYOUTS,
             blockPath, <<"blockLayout">>))
    ELSE IF block.required.tag # "undefined" /\ block.required.tag # "array"
    THEN ValidationFail(DataValidationError("required field must be an array",
             <<>>, blockPath, <<"required">>))
    ELSE IF block.required.tag = "array"
            /\ ~ValidateRequired(block.required.items, 1, blockPath).success
    THEN ValidateRequired(block.required.items, 1, blockPath)
    ELSE IF block.template # JUndefined /\ TypeOf(block.template) # "string"
    THEN ValidationFail(DataValidationError("template field must be a string",
             <<>>, blockPath, <<"template">>))
    ELSE ValidatedOk

validateBlockEnums(block, blockPath) ==
    IF ~Includes(VALID_BLOCK_LAYOUTS, block.blockLayout)
    THEN ValidationFail(DataValidationError("Invalid blockLayout value",
             <<JsString(block.blockLayout)>> \o VALID_BLOCK_LAYOUTS,
             blockPath, <<"blockLayout">>))
    ELSE IF block.blockLabel # JUndefined /\ ~Includes(VALID_BLOCK_LABELS, block.blockLabel)
    THEN ValidationFail(DataValidationError("Invalid blockLabel value",
             <<JsString(block.blockLabel)>> \o VALID_BLOCK_LABELS,
             blockPath, <<"blockLabel">>))
    ELSE IF block.required.tag # "undefined" /\ block.required.tag # "array"
    THEN ValidationFail(DataValidationError("required field must be an array",
             <<>>, blockPath, <<"required">>))
    ELSE IF block.required.tag = "array"
            /\ ~ValidateRequired(block.required.items, 1, blockPath).success
    THEN ValidateRequired(block.required.items, 1, blockPath)
    ELSE IF block.template # JUndefined /\ TypeOf(block.template) # "string"
    THEN ValidationFail(DataValidationError("template field must be a string",
             <<>>, blockPath, <<"template">>))
    ELSE ValidatedOk

RECURSIVE ValidateChallenges(_, _, _)
ValidateChallenges(challenges, i, blockPath) ==
    IF i > Len(challenges) THEN ValidatedOk
    ELSE IF challenges[i].isNull \/ ~Truthy(challenges[i].id)
            \/ TypeOf(challenges[i].id) # "string"
    THEN ValidationFail(DataValidationError(
             "Challenge at index i is missing required id field",
             <<IndexString(i)>>, blockPath, <<"challengeOrder", IndexString(i), "id">>))
    ELSE IF ~Truthy(challenges[i].title) \/ TypeOf(challenges[i].title) # "string"
    THEN ValidationFail(DataValidationError(
             "Challenge at index i is missing required title field",
             <<IndexString(i)>>, blockPath, <<"challengeOrder", IndexString(i), "title">>))
    ELSE ValidateChallenges(challenges, i + 1, blockPath)

\* validateChallengeStructure without the check for an empty list
validateChallengeStructure_EmptyAllowed(challenges, blockPath) ==
    ValidateChallenges(challenges, 1, blockPath)

validateChallengeStructure(challenges, blockPath) ==
    IF Len(challenges) = 0
    THEN ValidationFail(DataValidationError("challengeOrder array must not be empty",
             <<>>, blockPath, <<"challengeOrder">>))
    ELSE ValidateChallenges(challenges, 1, blockPath)

(***************************************************************************)
(* Normalizer (normalizer.ts)                                               *)
(***************************************************************************)
BLOCK_LAYOUT_MAPPING ==
    [raw \in {"link", "challenge-list", "challenge-grid", "dialogue-grid",
              "project-list", "legacy-challenge-list", "legacy-challenge-grid",
              "legacy-link"} |->
        CASE raw = "link" -> "LINK"
          [] raw = "challenge-list" -> "CHALLENGE_LIST"
          [] raw = "challenge-grid" -> "CHALLENGE_GRID"
          [] raw = "dialogue-grid" -> "DIALOGUE_GRID"
          [] raw = "project-list" -> "PROJECT_LIST"
          [] raw = "legacy-challenge-list" -> "LEGACY_CHALLENGE_LIST"
          [] raw = "legacy-challenge-grid" -> "LEGACY_CHALLENGE_GRID"
          [] raw = "legacy-link" -> "LEGACY_LINK"]

BLOCK_LABEL_MAPPING ==
    [raw \in {"lecture", "lab", "workshop", "review", "quiz", "exam", "warm-up",
              "practice", "learn"} |->
        CASE raw = "lecture" -> "LECTURE"
          [] raw = "lab" -> "LAB"
          [] raw = "workshop" -> "WORKSHOP"
          [] raw = "review" -> "REVIEW"
          [] raw = "quiz" -> "QUIZ"
          [] raw = "exam" -> "EXAM"
          [] raw = "warm-up" -> "WARM_UP"
          [] raw = "practice" -> "PRACTICE"
          [] raw = "learn" -> "LEARN"]

\* table[key]: the mapped symbol, or undefined when the table has no such key
Lookup(table, key) ==
    IF JsString(key) \in DOMAIN table THEN JStr(table[JsString(key)]) ELSE JUndefined

\* normalizeBlockLayout sending legacy-link to the symbol of link
normalizeBlockLayout_Collapsing(raw) ==
    IF raw = JStr("legacy-link") THEN JStr("LINK") ELSE Lookup(BLOCK_LAYOUT_MAPPING, raw)

normalizeBlockLayout(raw) == Lookup(BLOCK_LAYOUT_MAPPING, raw)

normalizeBlockLabel(raw) ==
    IF raw # JUndefined THEN Lookup(BLOCK_LABEL_MAPPING, raw) ELSE JNull

RequiredNull == [tag |-> "null", items |-> <<>>]

\* normalizeRequiredResources copying the entries as they are
normalizeRequiredResources_Copying(raw) ==
    IF raw.tag = "undefined" THEN RequiredNull
    ELSE RequiredArray([i \in DOMAIN raw.items |->
             [src |-> raw.items[i].src, link |-> raw.items[i].link]])

normalizeRequiredResources(raw) ==
    IF raw.tag = "undefined" THEN RequiredNull
    ELSE RequiredArray([i \in DOMAIN raw.items |->
             [src |-> Coalesce(raw.items[i].src, JNull),
              link |-> Coalesce(raw.items[i].link, JNull)]])

normalizeCurriculum(raw) ==
    [superblocks |-> raw.superblocks, certifications |-> raw.certifications]

normalizeModule(raw, chapterDashedName, superblockDashedName) ==
    [dashedName |-> raw.dashedName,
     blocks |-> raw.blocks,
     moduleType |-> Coalesce(raw.moduleType, JNull),
     comingSoon |-> Coalesce(raw.comingSoon, JBool("false")),
     chapterDashedName |-> chapterDashedName,
     superblockDashedName |-> superblockDashedName]

normalizeChapter(raw, superblockDashedName) ==
    [dashedName |-> raw.dashedName,
     modules |-> [m \in DOMAIN raw.modules |->
                     normalizeModule(raw.modules[m], raw.dashedName, superblockDashedName)],
     comingSoon |-> Coalesce(raw.comingSoon, JBool("false")),
     superblockDashedName |-> superblockDashedName]

\* normalizeSuperblock preferring the flat list when the file has one
normalizeSuperblock_FlatFirst(dashedName, raw, certifications) ==
    LET chapters == IF raw.hasChapters
                    THEN [c \in DOMAIN raw.chapters |->
                             normalizeChapter(raw.chapters[c], dashedName)]
                    ELSE <<>>
        flattenedBlocks ==
            IF raw.hasBlocks THEN raw.blocks
            ELSE Flatten([c \in DOMAIN chapters |->
                     Flatten([m \in DOMAIN chapters[c].modules |->
                         chapters[c].modules[m].blocks])])
    IN  [dashedName |-> dashedName,
         blocks |-> flattenedBlocks,
         chapters |-> chapters,
         isCertification |-> dashedName \in certifications]

normalizeSuperblock(dashedName, raw, certifications) ==
    LET chapters == IF raw.hasChapters
                    THEN [c \in DOMAIN raw.chapters |->
                             normalizeChapter(raw.chapters[c], dashedName)]
                    ELSE <<>>
        flattenedBlocks ==
            IF raw.hasChapters
            THEN Flatten([c \in DOMAIN chapters |->
                     Flatten([m \in DOMAIN chapters[c].modules |->
                         chapters[c].modules[m].blocks])])
            ELSE IF raw.hasBlocks THEN raw.blocks
            ELSE <<>>
    IN  [dashedName |-> dashedName,
         blocks |-> flattenedBlocks,
         chapters |-> chapters,
         isCertification |-> dashedName \in certifications]

\* normalizeChallengeMetadata spreading the raw object into the entry
normalizeChallengeMetadata_Spreading(raw, blockDashedName) ==
    [id |-> raw.id, title |-> raw.title, description |-> raw.description,
     blockDashedName |-> blockDashedName]

normalizeChallengeMetadata(raw, blockDashedName) ==
    [id |-> raw.id, title |-> raw.title, blockDashedName |-> blockDashedName]

\* normalizeBlock taking the identifier from the document instead of the key
normalizeBlock_DeclaredName(dashedName, raw, superblockDashedNames) ==
    [name |-> raw.name,
     dashedName |-> raw.dashedName,
     helpCategory |-> raw.helpCategory,
     challenges |-> [i \in DOMAIN raw.challengeOrder |->
                        normalizeChallengeMetadata(raw.challengeOrder[i], dashedName)],
     blockLayout |-> normalizeBlockLayout(raw.blockLayout),
     blockLabel |-> normalizeBlockLabel(raw.blockLabel),
     isUpcomingChange |-> raw.isUpcomingChange,
     usesMultifileEditor |-> Coalesce(raw.usesMultifileEditor, JNull),
     hasEditableBoundaries |-> Coalesce(raw.hasEditableBoundaries, JNull),
     disableLoopProtectTests |-> Coalesce(raw.disableLoopProtectTests, JNull),
     disableLoopProtectPreview |-> Coalesce(raw.disableLoopProtectPreview, JNull),
     required |-> normalizeRequiredResources(raw.required),
     template |-> Coalesce(raw.template, JNull),
     superblockDashedNames |-> superblockDashedNames]

normalizeBlock(dashedName, raw, superblockDashedNames) ==
    [name |-> raw.name,
     dashedName |-> dashedName,
     helpCategory |-> raw.helpCategory,
     challenges |-> [i \in DOMAIN raw.challengeOrder |->
                        normalizeChallengeMetadata(raw.challengeOrder[i], dashedName)],
     blockLayout |-> normalizeBlockLayout(raw.blockLayout),
     blockLabel |-> normalizeBlockLabel(raw.blockLabel),
     isUpcomingChange |-> raw.isUpcomingChange,
     usesMultifileEditor |-> Coalesce(raw.usesMultifileEditor, JNull),
     hasEditableBoundaries |-> Coalesce(raw.hasEditableBoundaries, JNull),
     disableLoopProtectTests |-> Coalesce(raw.disableLoopProtectTests, JNull),
     disableLoopProtectPreview |-> Coalesce(raw.disableLoopProtectPreview, JNull),
     required |-> normalizeRequiredResources(raw.required),
     template |-> Coalesce(raw.template, JNull),
     superblockDashedNames |-> superblockDashedNames]

(***************************************************************************)
(* Store Builder (store.ts) and Data Provider (provider.ts)                 *)
(***************************************************************************)
buildDataStore(curriculum, superblocks, blocks, challenges) ==
    [curriculum |-> curriculum, superblocks |-> superblocks,
     blocks |-> blocks, challenges |-> challenges]

NoStore == buildDataStore(normalizeCurriculum(NoCurriculum), EmptyMap, EmptyMap, EmptyMap)

\* the null a lookup answers for a missing key, per table
NotFoundSuperblock == [isNull |-> TRUE, entity |-> normalizeSuperblock("", NoSuperblock, {})]
NotFoundBlock == [isNull |-> TRUE, entity |-> normalizeBlock("", NoBlock, <<>>)]
NotFoundChallenge == [isNull |-> TRUE,
                   entity |-> normalizeChallengeMetadata(NullChallenge, "")]

Found(entity) == [isNull |-> FALSE, entity |-> entity]

getCurriculum(store) == store.curriculum

getSuperblock(store, dashedName) ==
    IF MapHas(store.superblocks, dashedName)
    THEN Found(MapGet(store.superblocks, dashedName)) ELSE NotFoundSuperblock

\* getBlock without the null sentinel: a missing key yields an entity
getBlock_NoNullSentinel(store, dashedName) ==
    Found(IF MapHas(store.blocks, dashedName)
          THEN MapGet(store.blocks, dashedName) ELSE NotFoundBlock.entity)

getBlock(store, dashedName) ==
    IF MapHas(store.blocks, dashedName)
    THEN Found(MapGet(store.blocks, dashedName)) ELSE NotFoundBlock

getChallenge(store, id) ==
    IF MapHas(store.challenges, id)
    THEN Found(MapGet(store.challenges, id)) ELSE NotFoundChallenge

(***************************************************************************)
(* Pipeline driver (data/index.ts): the synchronous parts of the phases     *)
(***************************************************************************)
\* Phase 3 collecting the flat lists only
CollectBlockNames_FlatOnly(rawSuperblocks) ==
    Flatten([i \in DOMAIN rawSuperblocks |->
        IF rawSuperblocks[i].v.hasBlocks THEN rawSuperblocks[i].v.blocks ELSE <<>>])

\* Phase 3: every block name of every loaded superblock, flat list first
CollectBlockNames(rawSuperblocks) ==
    Flatten([i \in DOMAIN rawSuperblocks |->
        (IF rawSuperblocks[i].v.hasBlocks THEN rawSuperblocks[i].v.blocks ELSE <<>>)
        \o (IF rawSuperblocks[i].v.hasChapters
            THEN Flatten([c \in DOMAIN rawSuperblocks[i].v.chapters |->
                     Flatten([m \in DOMAIN rawSuperblocks[i].v.chapters[c].modules |->
                         rawSuperblocks[i].v.chapters[c].modules[m].blocks])])
            ELSE <<>>)])

\* Phase 6 with the challenge-shape check of a block before its enum check
RECURSIVE ValidateAllBlocks_ChallengesFirst(_, _)
ValidateAllBlocks_ChallengesFirst(rawBlocks, i) ==
    IF i > Len(rawBlocks) THEN ValidatedOk
    ELSE LET enumValidation ==
                 validateBlockEnums(rawBlocks[i].v, BlockPath(rawBlocks[i].k))
             challengeValidation ==
                 validateChallengeStructure(rawBlocks[i].v.challengeOrder,
                                            BlockPath(rawBlocks[i].k))
         IN  IF ~challengeValidation.success THEN challengeValidation
             ELSE IF ~enumValidation.success THEN enumValidation
             ELSE ValidateAllBlocks_ChallengesFirst(rawBlocks, i + 1)

\* Phase 6: the per-block checks in block-table order, first failure returned
RECURSIVE ValidateAllBlocks(_, _)
ValidateAllBlocks(rawBlocks, i) ==
    IF i > Len(rawBlocks) THEN ValidatedOk
    ELSE LET enumValidation ==
                 validateBlockEnums(rawBlocks[i].v, BlockPath(rawBlocks[i].k))
             challengeValidation ==
                 validateChallengeStructure(rawBlocks[i].v.challengeOrder,
                                            BlockPath(rawBlocks[i].k))
         IN  IF ~enumValidation.success THEN enumValidation
             ELSE IF ~challengeValidation.success THEN challengeValidation
             ELSE ValidateAllBlocks(rawBlocks, i + 1)

\* Phase 8
NormalizeSuperblocks(rawSuperblocks, certSet) ==
    [i \in DOMAIN rawSuperblocks |->
        [k |-> rawSuperblocks[i].k,
         v |-> normalizeSuperblock(rawSuperblocks[i].k, rawSuperblocks[i].v, certSet)]]

\* Phase 9: push each (block, superblock) pair in iteration order
RECURSIVE PushParents(_, _)
PushParents(pairs, map) ==
    IF pairs = <<>> THEN map
    ELSE LET blockName == Head(pairs)[1]
             superblockName == Head(pairs)[2]
             sofar == IF MapHas(map, blockName) THEN MapGet(map, blockName) ELSE <<>>
         IN  PushParents(Tail(pairs), MapSet(map, blockName, Append(sofar, superblockName)))

\* the reverse index built by walking the superblock table backwards
BuildBlockToSuperblocks_Backwards(superblocks) ==
    PushParents(Flatten([i \in DOMAIN superblocks |->
                    [j \in DOMAIN superblocks[Len(superblocks) + 1 - i].v.blocks |->
                        <<superblocks[Len(superblocks) + 1 - i].v.blocks[j],
                          superblocks[Len(superblocks) + 1 - i].k>>]]),
                EmptyMap)

BuildBlockToSuperblocks(superblocks) ==
    PushParents(Flatten([i \in DOMAIN superblocks |->
                    [j \in DOMAIN superblocks[i].v.blocks |->
                        <<superblocks[i].v.blocks[j], superblocks[i].k>>]]),
                EmptyMap)

\* Phase 10: a block without parents makes the map callback throw
HasNoParent(blockToSuperblocks, name) ==
    ~MapHas(blockToSuperblocks, name) \/ Len(MapGet(blockToSuperblocks, name)) = 0

NormalizeBlocksThrows(rawBlocks, blockToSuperblocks) ==
    \E i \in DOMAIN rawBlocks : HasNoParent(blockToSuperblocks, rawBlocks[i].k)

NormalizeBlocks(rawBlocks, blockToSuperblocks) ==
    [i \in DOMAIN rawBlocks |->
        [k |-> rawBlocks[i].k,
         v |-> normalizeBlock(rawBlocks[i].k, rawBlocks[i].v,
                              MapGet(blockToSuperblocks, rawBlocks[i].k))]]

\* Phase 11: new Map(entries); a later entry overwrites an earlier one
RECURSIVE MapFromEntries(_, _)
MapFromEntries(entries, map) ==
    IF entries = <<>> THEN map
    ELSE MapFromEntries(Tail(entries), MapSet(map, Head(entries).id, Head(entries)))

\* the challenge table built so that the earlier entry of an id is kept
BuildChallenges_FirstWins(blocks) ==
    LET flat == Flatten([i \in DOMAIN blocks |-> blocks[i].v.challenges])
    IN  MapFromEntries([j \in DOMAIN flat |-> flat[Len(flat) + 1 - j]], EmptyMap)

BuildChallenges(blocks) ==
    MapFromEntries(Flatten([i \in DOMAIN blocks |-> blocks[i].v.challenges]), EmptyMap)

(***************************************************************************)
(* Query resolvers (schema/resolvers/Query.ts); context is the provider     *)
(***************************************************************************)
\* the entities of the lookups that found something, in order
RECURSIVE FoundOnly(_)
FoundOnly(lookups) ==
    IF lookups = <<>> THEN <<>>
    ELSE (IF Head(lookups).isNull THEN <<>> ELSE <<Head(lookups).entity>>)
         \o FoundOnly(Tail(lookups))

\* the stored superblocks the curriculum lists, in curriculum order
ListedSuperblocks(store) ==
    FoundOnly([i \in DOMAIN getCurriculum(store).superblocks |->
                  getSuperblock(store, getCurriculum(store).superblocks[i])])

\* the block names of the listed superblocks, in order, repetitions kept
ListedBlockNames(store) ==
    Flatten([i \in DOMAIN ListedSuperblocks(store) |-> ListedSuperblocks(store)[i].blocks])

RECURSIVE FirstOccurrences(_, _)
FirstOccurrences(names, seen) ==
    IF names = <<>> THEN <<>>
    ELSE IF Head(names) \in seen THEN FirstOccurrences(Tail(names), seen)
    ELSE <<Head(names)>> \o FirstOccurrences(Tail(names), seen \cup {Head(names)})

NoHealth == [superblockCount |-> 0, chapterCount |-> 0, moduleCount |-> 0,
             blockCount |-> 0, challengeCount |-> 0]

NoAnswer ==
    [op |-> "none", arg |-> "", curriculum |-> normalizeCurriculum(NoCurriculum),
     superblock |-> NotFoundSuperblock, block |-> NotFoundBlock,
     challenge |-> NotFoundChallenge, superblocks |-> <<>>, blocks |-> <<>>,
     challenges |-> <<>>, certifications |-> <<>>, chapters |-> <<>>,
     modules |-> <<>>, health |-> NoHealth, status |-> 0]

Query_curriculum(store) ==
    [NoAnswer EXCEPT !.op = "curriculum", !.curriculum = getCurriculum(store)]

Query_superblock(store, dashedName) ==
    [NoAnswer EXCEPT !.op = "superblock", !.arg = dashedName,
                     !.superblock = getSuperblock(store, dashedName)]

Query_superblocks(store) ==
    [NoAnswer EXCEPT !.op = "superblocks", !.superblocks = ListedSuperblocks(store)]

Query_block(store, dashedName) ==
    [NoAnswer EXCEPT !.op = "block", !.arg = dashedName,
                     !.block = getBlock(store, dashedName)]

Query_challenge(store, id) ==
    [NoAnswer EXCEPT !.op = "challenge", !.arg = id,
                     !.challenge = getChallenge(store, JStr(id))]

Query_blocks(store, superblockDashedName) ==
    [NoAnswer EXCEPT !.op = "blocks", !.arg = superblockDashedName,
        !.blocks =
            IF superblockDashedName # ""
            THEN IF getSuperblock(store, superblockDashedName).isNull THEN <<>>
                 ELSE LET names == getSuperblock(store, superblockDashedName).entity.blocks
                      IN  FoundOnly([i \in DOMAIN names |-> getBlock(store, names[i])])
            ELSE LET names == FirstOccurrences(ListedBlockNames(store), {})
                 IN  FoundOnly([i \in DOMAIN names |-> getBlock(store, names[i])])]

Query_challenges(store, blockDashedName) ==
    [NoAnswer EXCEPT !.op = "challenges", !.arg = blockDashedName,
        !.challenges =
            IF blockDashedName # ""
            THEN IF getBlock(store, blockDashedName).isNull THEN <<>>
                 ELSE getBlock(store, blockDashedName).entity.challenges
            ELSE LET names == ListedBlockNames(store)
                     found == FoundOnly([i \in DOMAIN names |-> getBlock(store, names[i])])
                 IN  Flatten([i \in DOMAIN found |-> found[i].challenges])]

\* the certifications resolver without the filter on loaded superblocks
Query_certifications_Unfiltered(store) ==
    [NoAnswer EXCEPT !.op = "certifications",
        !.certifications = getCurriculum(store).certifications]

Query_certifications(store) ==
    [NoAnswer EXCEPT !.op = "certifications",
        !.certifications =
            SelectSeq(getCurriculum(store).certifications,
                      LAMBDA dashedName : ~getSuperblock(store, dashedName).isNull)]

\* Certification.superblock (schema/resolvers/Certification.ts): the superblock
\* of a certification the query answered, a GraphQLError when there is none
Certification_superblock(store, dashedName) ==
    [threw |-> getSuperblock(store, dashedName).isNull,
     superblock |-> getSuperblock(store, dashedName).entity]

Query_chapters(store, superblockDashedName) ==
    [NoAnswer EXCEPT !.op = "chapters", !.arg = superblockDashedName,
        !.chapters =
            IF superblockDashedName # ""
            THEN IF getSuperblock(store, superblockDashedName).isNull THEN <<>>
                 ELSE getSuperblock(store, superblockDashedName).entity.chapters
            ELSE Flatten([i \in DOMAIN ListedSuperblocks(store) |->
                     ListedSuperblocks(store)[i].chapters])]

\* modules(superblockDashedName, chapterDashedName); the chapter filter wins
Query_modules(store, superblockDashedName, chapterDashedName) ==
    LET AllModules(chapters) == Flatten([c \in DOMAIN chapters |-> chapters[c].modules])
        listed == ListedSuperblocks(store)
        holders == {i \in DOMAIN listed :
                       \E c \in DOMAIN listed[i].chapters :
                           listed[i].chapters[c].dashedName = chapterDashedName}
    IN  [NoAnswer EXCEPT !.op = "modules",
            !.arg = IF chapterDashedName # "" THEN chapterDashedName
                    ELSE superblockDashedName,
            !.modules =
                IF chapterDashedName # ""
                THEN IF holders = {} THEN <<>>
                     ELSE LET i == CHOOSE x \in holders : \A y \in holders : x <= y
                              hits == {c \in DOMAIN listed[i].chapters :
                                   listed[i].chapters[c].dashedName = chapterDashedName}
                              c == CHOOSE x \in hits : \A y \in hits : x <= y
                          IN  listed[i].chapters[c].modules
                ELSE IF superblockDashedName # ""
                THEN IF getSuperblock(store, superblockDashedName).isNull THEN <<>>
                     ELSE AllModules(getSuperblock(store, superblockDashedName).entity.chapters)
                ELSE Flatten([i \in DOMAIN listed |-> AllModules(listed[i].chapters)])]

RECURSIVE SumLen(_)
SumLen(seqs) == IF seqs = <<>> THEN 0 ELSE Len(Head(seqs)) + SumLen(Tail(seqs))

Query_health(store) ==
    LET listed == ListedSuperblocks(store)
        chapters == Flatten([i \in DOMAIN listed |-> listed[i].chapters])
        uniqueBlocks == FirstOccurrences(ListedBlockNames(store), {})
        found == FoundOnly([i \in DOMAIN uniqueBlocks |-> getBlock(store, uniqueBlocks[i])])
    IN  [NoAnswer EXCEPT !.op = "_health",
            !.health = [superblockCount |-> Len(getCurriculum(store).superblocks),
                        chapterCount |-> Len(chapters),
                        moduleCount |-> SumLen([c \in DOMAIN chapters |-> chapters[c].modules]),
                        blockCount |-> Len(uniqueBlocks),
                        challengeCount |-> SumLen([i \in DOMAIN found |-> found[i].challenges])]]

(***************************************************************************)
(* Readiness (readiness.ts) and the /ready probe (server.ts)                *)
(***************************************************************************)
isReady(flag) == flag

\* GET /ready: 200 'ready' when isReady(), 503 'not ready' otherwise
Probe_ready(flag) ==
    [NoAnswer EXCEPT !.op = "ready", !.status = IF isReady(flag) THEN 200 ELSE 503]

(***************************************************************************)
(* Input documents the model draws files from                               *)
(***************************************************************************)
CertificationLists == {<<>>, <<"sbA", "legacy-cert">>}

StructureCurriculumFiles ==
    {FileMissing(NoCurriculum), FileMalformed(NoCurriculum)}
    \cup {FileOk(RawCurriculum(names, certs)) :
             names \in SeqUpTo(SuperblockNames, MaxSuperblocks),
             certs \in CertificationLists}

FlatSuperblock(blockNames) == RawSuperblock(JUndefined, TRUE, blockNames, FALSE, <<>>)

V9Superblock(chapters) == RawSuperblock(JStr("Full Stack"), FALSE, <<>>, TRUE, chapters)

MixedSuperblock(blockNames, chapters) ==
    RawSuperblock(JUndefined, TRUE, blockNames, TRUE, chapters)

Module1(blockNames) == RawModule("m1", blockNames, JStr("review"))
Module2(blockNames) == RawModule("m2", blockNames, JUndefined)

SuperblockDocuments ==
    {NoSuperblock,
     FlatSuperblock(<<>>),
     FlatSuperblock(<<"blk1">>),
     FlatSuperblock(<<"blk1", "blk2">>),
     FlatSuperblock(<<"blk2", "blk1">>),
     FlatSuperblock(<<"blk1", "blk1">>),
     FlatSuperblock(<<"">>),
     V9Superblock(<<RawChapter("ch1", <<Module1(<<"blk1">>), Module2(<<"blk2">>)>>)>>),
     V9Superblock(<<RawChapter("ch1", <<Module1(<<"blk2">>)>>),
                    RawChapter("ch2", <<Module2(<<"blk2", "blk1">>)>>)>>),
     MixedSuperblock(<<"blk1">>, <<>>),
     MixedSuperblock(<<"blk2">>, <<RawChapter("ch1", <<Module1(<<"blk1">>)>>)>>)}

StructureSuperblockFiles ==
    {FileMissing(NoSuperblock), FileMalformed(NoSuperblock)}
    \cup {FileOk(doc) : doc \in SuperblockDocuments}

Challenge1 == RawChallenge(JStr("c1"), JStr("Title 1"), JStr("content"))
Challenge1b == RawChallenge(JStr("c1"), JStr("Title 1b"), JUndefined)
Challenge2 == RawChallenge(JStr("c2"), JStr("Title 2"), JUndefined)

BlockDocuments ==
    {RawBlock("Block", <<Challenge1>>, JStr("link"), JUndefined,
              RequiredAbsent, JUndefined, JUndefined),
     RawBlock("Lecture", <<Challenge1b, Challenge2, Challenge1>>, JStr("challenge-list"),
              JStr("lecture"), RequiredArray(<<RawRequiredResource(JStr("x.js"), JUndefined)>>),
              JStr("tpl"), JBool("true")),
     RawBlock("Bad layout", <<Challenge1>>, JStr("not-a-real-layout"), JUndefined,
              RequiredAbsent, JUndefined, JUndefined),
     RawBlock("No challenges", <<>>, JStr("link"), JUndefined,
              RequiredAbsent, JUndefined, JUndefined),
     RawBlock("Bad layout, no challenges", <<>>, JStr("not-a-real-layout"), JUndefined,
              RequiredAbsent, JUndefined, JUndefined)}

StructureBlockFiles ==
    {FileMissing(NoBlock), FileMalformed(NoBlock)}
    \cup {FileOk(doc) : doc \in BlockDocuments}

\* Block documents that vary what the validators look at, one aspect at a time
EnumLayouts ==
    {JStr(l) : l \in RawBlockLayouts}
    \cup {JStr("not-a-real-layout"), JStr("LINK"), JNull, JNum("5"), JUndefined}

EnumLabels ==
    {JStr(l) : l \in RawBlockLabels} \cup {JUndefined, JStr("bogus"), JNull}

ResourceValues == {JUndefined, JNull, JStr("x.js"), JNum("1")}

Resources ==
    {NullResource} \cup {RawRequiredResource(src, link) :
                             src \in ResourceValues, link \in ResourceValues}

ChallengeEntries ==
    {NullChallenge}
    \cup {RawChallenge(id, title, JUndefined) :
             id \in {JUndefined, JNull, JStr(""), JStr("c1"), JNum("7")},
             title \in {JUndefined, JStr(""), JStr("Title 1"), JNum("0")}}

EnumDocuments ==
    {RawBlock("Block", <<Challenge1>>, layout, label, required, template, JUndefined) :
        layout \in EnumLayouts, label \in EnumLabels,
        required \in {RequiredAbsent, RequiredOther,
                      RequiredArray(<<RawRequiredResource(JStr("x.js"), JUndefined)>>)},
        template \in {JUndefined, JStr("tpl"), JNum("1")}}

RequiredDocuments ==
    {RawBlock("Block", <<Challenge1>>, JStr("link"), JUndefined,
              RequiredArray(items), template, JUndefined) :
        items \in SeqUpTo(Resources, MaxRequired), template \in {JUndefined, JNum("1")}}

ChallengeDocuments ==
    {RawBlock("Block", challengeOrder, JStr("link"), JStr("quiz"),
              RequiredAbsent, JUndefined, JBool("false")) :
        challengeOrder \in SeqUpTo(ChallengeEntries, MaxChallenges)}

\* The files a read can find.  The "structure" corpus varies the manifest and
\* the shapes of the superblock files over a few block documents; the "blocks"
\* corpus varies the block document under a one-block curriculum; the "reload"
\* corpus is a small data directory that is loaded more than once; the
\* "startup" corpus is a smaller one the process starts up on.
CurriculumFiles(c) ==
    IF c = "structure" THEN StructureCurriculumFiles
    ELSE IF c = "startup"
    THEN {FileMissing(NoCurriculum), FileOk(RawCurriculum(<<"sbA">>, <<"sbA">>))}
    ELSE IF c = "reload"
    THEN {FileMissing(NoCurriculum), FileMalformed(NoCurriculum),
          FileOk(RawCurriculum(<<"sbA", "sbB">>, <<"sbA">>)),
          FileOk(RawCurriculum(<<"sbB">>, <<>>))}
    ELSE {FileOk(RawCurriculum(<<"sbA">>, <<"sbA">>))}

SuperblockFiles(c, dashedName) ==
    IF c = "structure"
    THEN IF dashedName = ""
         THEN {FileMissing(NoSuperblock), FileMalformed(NoSuperblock),
               FileOk(FlatSuperblock(<<"blk1">>))}
         ELSE StructureSuperblockFiles
    ELSE IF c = "startup"
    THEN {FileOk(FlatSuperblock(<<"blk1", "blk2">>)), FileOk(MixedSuperblock(<<"blk1">>, <<>>))}
    ELSE IF c = "reload"
    THEN {FileMissing(NoSuperblock), FileMalformed(NoSuperblock),
          FileOk(FlatSuperblock(<<"blk1", "blk2">>)),
          FileOk(FlatSuperblock(<<"blk2">>)),
          FileOk(V9Superblock(<<RawChapter("ch1", <<Module1(<<"blk2">>)>>),
                                RawChapter("ch2", <<Module2(<<"blk2", "blk1">>)>>)>>))}
    ELSE {FileOk(FlatSuperblock(<<"blk1">>)), FileOk(MixedSuperblock(<<"blk1">>, <<>>)),
          FileOk(V9Superblock(<<RawChapter("ch1", <<Module1(<<>>), Module2(<<"blk1">>)>>)>>))}

BlockFiles(c, dashedName) ==
    IF c = "structure"
    THEN IF dashedName = ""
         THEN {FileMissing(NoBlock), FileMalformed(NoBlock),
               FileOk(RawBlock("Block", <<Challenge1>>, JStr("link"), JUndefined,
                               RequiredAbsent, JUndefined, JUndefined))}
         ELSE StructureBlockFiles
    ELSE IF c = "startup"
    THEN {FileOk(doc) : doc \in {d \in BlockDocuments : d.name \in {"Block", "Lecture"}}}
    ELSE IF c = "reload"
    THEN {FileMissing(NoBlock), FileMalformed(NoBlock)}
         \cup {FileOk(doc) : doc \in {d \in BlockDocuments :
                                          d.name \in {"Block", "Lecture", "Bad layout"}}}
    ELSE {FileOk(doc) : doc \in EnumDocuments \cup RequiredDocuments \cup ChallengeDocuments}

\* the ways the files named by names can be found on disk: one file per name,
\* drawn from the files that name can have
FilesFor(c, kind, names) ==
    LET Files(n) == IF kind = "superblock" THEN SuperblockFiles(c, n) ELSE BlockFiles(c, n)
        named == names \ {""}
    IN  {[n \in names |-> IF n = "" THEN unnamed ELSE files[n]] :
            files \in [named -> UNION {Files(n) : n \in named}],
            unnamed \in IF "" \in names THEN Files("") ELSE {FileMissing(NoBlock)}}

\* a file no read has looked at yet
Unread(dummy) == [state |-> "unread", data |-> dummy]

\* what a read of a file can find: one of files when no read has looked at it
\* yet, what the earlier read found otherwise
ReadFinds(known, files) == IF known.state = "unread" THEN files ELSE {known}

QuerySuperblockArgs == SuperblockNames \cup {"no-such-superblock"}
QueryBlockArgs == BlockNames \cup {"no-such-block"}
QueryChallengeArgs == {"c1", "c2", "no-such-challenge"}
QueryChapterArgs == {"", "ch1", "ch2"}

(***************************************************************************)
(* State                                                                    *)
(***************************************************************************)
VARIABLES
    corpus,             \* which files the data directory may hold
    earlierCalls,       \* the outcomes of the earlier calls of initializeDataStore
    ready,              \* the readiness flag (readiness.ts)
    disk,               \* the files under DataPath, as far as they were read
    reads,              \* the paths read so far, in the order the reads were issued
    proc,               \* where main() is
    exitCode,           \* process.exit status, -1 while the process runs
    server,             \* "none", "created" or "listening"
    pc,                 \* where initializeDataStore is
    phases,             \* the phases initializeDataStore has run
    rawCurriculum, rawSuperblocks, allBlockNames, rawBlocks,
    curriculum, superblocks, blockToSuperblocks, blocks,
    result,             \* the Result initializeDataStore returned
    dataStore,          \* the store the provider was constructed with
    answer,             \* what the last resolver call returned
    bulkKind,           \* a bulk load on its own: "superblock" or "block"
    bulkNames,          \* the identifiers it was given
    bulkFiles,          \* the files those identifiers name
    bulkSettled,        \* the positions whose read has completed
    bulkResults,        \* the Result of each completed read, by position
    bulkPc,             \* "idle", "reading" or "done"
    bulkReturn,         \* what the bulk load returned
    enumKind,           \* an enum normalization on its own: "layout" or "label"
    enumRaw,            \* the two raw values it is given
    enumOut,            \* what the normalizer returned for each
    enumPc              \* "idle", "raw" or "normalized"

bulkVars == <<bulkKind, bulkNames, bulkFiles, bulkSettled, bulkResults, bulkPc, bulkReturn>>

enumVars == <<enumKind, enumRaw, enumOut, enumPc>>

vars == <<bulkVars, enumVars, corpus, earlierCalls, ready, disk, reads, proc, exitCode, server, pc,
          phases, rawCurriculum,
          rawSuperblocks, allBlockNames, rawBlocks, curriculum, superblocks,
          blockToSuperblocks, blocks, result, dataStore, answer>>

mainVars == <<bulkVars, enumVars, corpus, earlierCalls, ready, proc, exitCode, server, dataStore,
              answer>>

localVars == <<rawCurriculum, rawSuperblocks, allBlockNames, rawBlocks,
               curriculum, superblocks, blockToSuperblocks, blocks>>

NoResult == Fail(NoError, NoStore)

\* the state of the process before main() runs
ProcessInit(c) ==
    /\ corpus = c
    /\ earlierCalls = <<>>
    /\ ready = FALSE
    /\ disk = [curriculum |-> Unread(NoCurriculum),
               superblocks |-> [n \in SuperblockNames |-> Unread(NoSuperblock)],
               blocks |-> [n \in BlockNames |-> Unread(NoBlock)]]
    /\ reads = <<>>
    /\ proc = "start"
    /\ exitCode = -1
    /\ server = "none"
    /\ pc = "idle"
    /\ phases = <<>>
    /\ rawCurriculum = NoCurriculum
    /\ rawSuperblocks = EmptyMap
    /\ allBlockNames = <<>>
    /\ rawBlocks = EmptyMap
    /\ curriculum = normalizeCurriculum(NoCurriculum)
    /\ superblocks = EmptyMap
    /\ blockToSuperblocks = EmptyMap
    /\ blocks = EmptyMap
    /\ result = NoResult
    /\ dataStore = NoStore
    /\ answer = NoAnswer

NoBulkReturn == Fail(NoError, EmptyMap)

\* no enum normalization on its own is under way
EnumsIdle ==
    /\ enumKind = "none"
    /\ enumRaw = <<>>
    /\ enumOut = <<>>
    /\ enumPc = "idle"

InitFrom(c) ==
    /\ ProcessInit(c)
    /\ EnumsIdle
    /\ bulkKind = "none"
    /\ bulkNames = <<>>
    /\ bulkFiles = <<>>
    /\ bulkSettled = {}
    /\ bulkResults = <<>>
    /\ bulkPc = "idle"
    /\ bulkReturn = NoBulkReturn

Init == InitFrom("structure")

InitBlocks == InitFrom("blocks")

(***************************************************************************)
(* initializeDataStore (data/index.ts), one action per phase                *)
(***************************************************************************)
\* return r: the caller of initializeDataStore resumes with r
Return(r) ==
    /\ result' = r
    /\ pc' = "returned"

Phase1 ==
    /\ pc = "phase1"
    /\ \E file \in ReadFinds(disk.curriculum, CurriculumFiles(corpus)) :
          LET curriculumResult == loadCurriculumFile(file)
          IN  /\ disk' = [disk EXCEPT !.curriculum = file]
              /\ reads' = Append(reads, CurriculumPath)
              /\ phases' = Append(phases, "loadCurriculum")
              /\ IF ~curriculumResult.success
                 THEN /\ Return(Fail(curriculumResult.error, NoStore))
                      /\ UNCHANGED rawCurriculum
                 ELSE /\ rawCurriculum' = curriculumResult.data
                      /\ pc' = "phase2"
                      /\ UNCHANGED result
    /\ UNCHANGED <<mainVars, rawSuperblocks, allBlockNames, rawBlocks, curriculum,
                   superblocks, blockToSuperblocks, blocks>>

\* Phase 2 without the early return: a failed bulk load is not propagated
Phase2_NoEarlyReturn ==
    /\ pc = "phase2"
    /\ \E files \in FilesFor(corpus, "superblock", Range(rawCurriculum.superblocks)) :
          LET onDisk == [n \in SuperblockNames |->
                            IF n \in DOMAIN files THEN files[n] ELSE disk.superblocks[n]]
              superblockResult == loadAllSuperblocks(onDisk, rawCurriculum.superblocks)
          IN  /\ disk' = [disk EXCEPT !.superblocks = onDisk]
              /\ reads' = reads \o [i \in DOMAIN rawCurriculum.superblocks |->
                                       SuperblockPath(rawCurriculum.superblocks[i])]
              /\ phases' = Append(phases, "loadAllSuperblocks")
              /\ rawSuperblocks' = superblockResult.data
              /\ pc' = "phase3"
              /\ UNCHANGED result
    /\ UNCHANGED <<mainVars, rawCurriculum, allBlockNames, rawBlocks, curriculum,
                   superblocks, blockToSuperblocks, blocks>>

Phase2 ==
    /\ pc = "phase2"
    /\ \E files \in FilesFor(corpus, "superblock", Range(rawCurriculum.superblocks)) :
          LET onDisk == [n \in SuperblockNames |->
                            IF n \in DOMAIN files THEN files[n] ELSE disk.superblocks[n]]
              superblockResult == loadAllSuperblocks(onDisk, rawCurriculum.superblocks)
          IN  /\ disk' = [disk EXCEPT !.superblocks = onDisk]
              /\ reads' = reads \o [i \in DOMAIN rawCurriculum.superblocks |->
                                       SuperblockPath(rawCurriculum.superblocks[i])]
              /\ phases' = Append(phases, "loadAllSuperblocks")
              /\ IF ~superblockResult.success
                 THEN /\ Return(Fail(superblockResult.error, NoStore))
                      /\ UNCHANGED rawSuperblocks
                 ELSE /\ rawSuperblocks' = superblockResult.data
                      /\ pc' = "phase3"
                      /\ UNCHANGED result
    /\ UNCHANGED <<mainVars, rawCurriculum, allBlockNames, rawBlocks, curriculum,
                   superblocks, blockToSuperblocks, blocks>>

Phase3 ==
    /\ pc = "phase3"
    /\ allBlockNames' = CollectBlockNames(rawSuperblocks)
    /\ phases' = Append(phases, "collectBlockNames")
    /\ pc' = "phase4"
    /\ UNCHANGED <<mainVars, disk, reads, result, rawCurriculum, rawSuperblocks,
                   rawBlocks, curriculum, superblocks, blockToSuperblocks, blocks>>

Phase4 ==
    /\ pc = "phase4"
    /\ \E files \in FilesFor(corpus, "block", Range(allBlockNames)) :
          LET onDisk == [n \in BlockNames |->
                            IF n \in DOMAIN files THEN files[n] ELSE disk.blocks[n]]
              blockResult == loadAllBlocks(onDisk, allBlockNames)
          IN  /\ disk' = [disk EXCEPT !.blocks = onDisk]
              /\ reads' = reads \o [i \in DOMAIN allBlockNames |->
                                       BlockPath(allBlockNames[i])]
              /\ phases' = Append(phases, "loadAllBlocks")
              /\ IF ~blockResult.success
                 THEN /\ Return(Fail(blockResult.error, NoStore))
                      /\ UNCHANGED rawBlocks
                 ELSE /\ rawBlocks' = blockResult.data
                      /\ pc' = "phase5"
                      /\ UNCHANGED result
    /\ UNCHANGED <<mainVars, rawCurriculum, rawSuperblocks, allBlockNames, curriculum,
                   superblocks, blockToSuperblocks, blocks>>

\* Phase 5 with a curriculum check that rejects unknown certifications
Phase5_CertificationsChecked ==
    /\ pc = "phase5"
    /\ phases' = Append(phases, "validateReferences")
    /\ LET unknown == {i \in DOMAIN rawCurriculum.certifications :
                          ~MapHas(rawSuperblocks, rawCurriculum.certifications[i])}
           superblockValidation == validateSuperblockReferences(rawSuperblocks, rawBlocks)
       IN  IF unknown # {}
           THEN Return(Fail(DataValidationError("Certification is not a superblock",
                                <<rawCurriculum.certifications[CHOOSE i \in unknown : TRUE]>>,
                                CurriculumPath, <<"certifications">>), NoStore))
           ELSE IF ~superblockValidation.success
           THEN Return(Fail(superblockValidation.error, NoStore))
           ELSE pc' = "phase6" /\ UNCHANGED result
    /\ UNCHANGED <<mainVars, disk, reads, localVars>>

Phase5 ==
    /\ pc = "phase5"
    /\ phases' = Append(phases, "validateReferences")
    /\ LET curriculumValidation == validateCurriculumReferences
           superblockValidation == validateSuperblockReferences(rawSuperblocks, rawBlocks)
       IN  IF ~curriculumValidation.success
           THEN Return(Fail(curriculumValidation.error, NoStore))
           ELSE IF ~superblockValidation.success
           THEN Return(Fail(superblockValidation.error, NoStore))
           ELSE pc' = "phase6" /\ UNCHANGED result
    /\ UNCHANGED <<mainVars, disk, reads, localVars>>

Phase6 ==
    /\ pc = "phase6"
    /\ phases' = Append(phases, "validateBlocks")
    /\ LET validation == ValidateAllBlocks(rawBlocks, 1)
       IN  IF ~validation.success
           THEN Return(Fail(validation.error, NoStore))
           ELSE pc' = "phase7" /\ UNCHANGED result
    /\ UNCHANGED <<mainVars, disk, reads, localVars>>

Phase7_8 ==
    /\ pc = "phase7"
    /\ phases' = Append(phases, "normalizeSuperblocks")
    /\ curriculum' = normalizeCurriculum(rawCurriculum)
    /\ superblocks' = NormalizeSuperblocks(rawSuperblocks,
                                           Range(normalizeCurriculum(rawCurriculum).certifications))
    /\ pc' = "phase9"
    /\ UNCHANGED <<mainVars, disk, reads, result, rawCurriculum, rawSuperblocks,
                   allBlockNames, rawBlocks, blockToSuperblocks, blocks>>

Phase9 ==
    /\ pc = "phase9"
    /\ phases' = Append(phases, "buildReverseIndex")
    /\ blockToSuperblocks' = BuildBlockToSuperblocks(superblocks)
    /\ pc' = "phase10"
    /\ UNCHANGED <<mainVars, disk, reads, result, rawCurriculum, rawSuperblocks,
                   allBlockNames, rawBlocks, curriculum, superblocks, blocks>>

\* Phase 10 returning a failure Result for a block without parents
Phase10_Returning ==
    /\ pc = "phase10"
    /\ phases' = Append(phases, "normalizeBlocks")
    /\ IF NormalizeBlocksThrows(rawBlocks, blockToSuperblocks)
       THEN /\ Return(Fail(DataValidationError("Block has no parent superblock", <<>>,
                                                <<>>, NoField), NoStore))
            /\ UNCHANGED blocks
       ELSE /\ blocks' = NormalizeBlocks(rawBlocks, blockToSuperblocks)
            /\ pc' = "phase11"
            /\ UNCHANGED result
    /\ UNCHANGED <<mainVars, disk, reads, rawCurriculum, rawSuperblocks,
                   allBlockNames, rawBlocks, curriculum, superblocks, blockToSuperblocks>>

Phase10 ==
    /\ pc = "phase10"
    /\ phases' = Append(phases, "normalizeBlocks")
    /\ IF NormalizeBlocksThrows(rawBlocks, blockToSuperblocks)
       THEN pc' = "threw" /\ UNCHANGED blocks
       ELSE /\ blocks' = NormalizeBlocks(rawBlocks, blockToSuperblocks)
            /\ pc' = "phase11"
    /\ UNCHANGED <<mainVars, disk, reads, result, rawCurriculum, rawSuperblocks,
                   allBlockNames, rawBlocks, curriculum, superblocks, blockToSuperblocks>>

Phase11_12 ==
    /\ pc = "phase11"
    /\ phases' = Append(phases, "buildDataStore")
    /\ Return(Ok(buildDataStore(curriculum, superblocks, blocks, BuildChallenges(blocks))))
    /\ UNCHANGED <<mainVars, disk, reads, localVars>>

initializeDataStore ==
    \/ Phase1 \/ Phase2 \/ Phase3 \/ Phase4 \/ Phase5 \/ Phase6
    \/ Phase7_8 \/ Phase9 \/ Phase10 \/ Phase11_12

(***************************************************************************)
(* main() (src/index.ts)                                                    *)
(***************************************************************************)
pipelineVars == <<bulkVars, enumVars, corpus, earlierCalls, ready, disk, reads, pc, phases, result,
                  localVars>>

Exit(code) ==
    /\ proc' = "exited"
    /\ exitCode' = code

\* configuration is read and checked, then initializeDataStore is called
MainConfigure ==
    /\ proc = "start"
    /\ \E configValid \in BOOLEAN :
          IF configValid
          THEN /\ proc' = "loading"
               /\ pc' = "phase1"
               /\ UNCHANGED exitCode
          ELSE /\ Exit(1)
               /\ UNCHANGED pc
    /\ UNCHANGED <<bulkVars, enumVars, corpus, earlierCalls, ready, server, dataStore, answer,
                   disk, reads, phases, result, localVars>>

\* main() without the check of result.success
MainLoaded_IgnoresFailure ==
    /\ proc = "loading"
    /\ pc = "returned"
    /\ dataStore' = result.data
    /\ \E schemaLoads \in BOOLEAN :
          IF schemaLoads
          THEN /\ server' = "created"
               /\ proc' = "starting"
               /\ UNCHANGED exitCode
          ELSE /\ Exit(1)
               /\ UNCHANGED server
    /\ UNCHANGED <<answer, pipelineVars>>

\* the await of initializeDataStore resumes with its Result
MainLoaded ==
    /\ proc = "loading"
    /\ pc = "returned"
    /\ IF ~result.success
       THEN /\ Exit(1)
            /\ UNCHANGED <<dataStore, server>>
       ELSE /\ dataStore' = result.data
            /\ \E schemaLoads \in BOOLEAN :
                  IF schemaLoads
                  THEN /\ server' = "created"
                       /\ proc' = "starting"
                       /\ UNCHANGED exitCode
                  ELSE /\ Exit(1)
                       /\ UNCHANGED server
    /\ UNCHANGED <<answer, pipelineVars>>

\* initializeDataStore threw: main() rejects and main().catch runs
MainCatch ==
    /\ proc = "loading"
    /\ pc = "threw"
    /\ Exit(1)
    /\ UNCHANGED <<server, dataStore, answer, pipelineVars>>

\* await server.start()
MainStartServer ==
    /\ proc = "starting"
    /\ \E portFree \in BOOLEAN :
          IF portFree
          THEN /\ server' = "listening"
               /\ proc' = "serving"
               /\ UNCHANGED exitCode
          ELSE /\ Exit(1)
               /\ UNCHANGED server
    /\ UNCHANGED <<dataStore, answer, pipelineVars>>

(***************************************************************************)
(* Requests: each resolver call reads the store through the provider        *)
(***************************************************************************)
Serve(a) ==
    /\ proc = "serving"
    /\ answer = NoAnswer
    /\ answer' = a
    /\ UNCHANGED <<proc, exitCode, server, pipelineVars>>

ServeCurriculum == Serve(Query_curriculum(dataStore)) /\ UNCHANGED dataStore

ServeSuperblock ==
    \E dashedName \in QuerySuperblockArgs :
        Serve(Query_superblock(dataStore, dashedName)) /\ UNCHANGED dataStore

ServeSuperblocks == Serve(Query_superblocks(dataStore)) /\ UNCHANGED dataStore

ServeBlock ==
    \E dashedName \in QueryBlockArgs :
        Serve(Query_block(dataStore, dashedName)) /\ UNCHANGED dataStore

ServeChallenge ==
    \E id \in QueryChallengeArgs :
        Serve(Query_challenge(dataStore, id)) /\ UNCHANGED dataStore

ServeBlocks ==
    \E superblockDashedName \in QuerySuperblockArgs :
        Serve(Query_blocks(dataStore, superblockDashedName)) /\ UNCHANGED dataStore

ServeChallenges ==
    \E blockDashedName \in QueryBlockArgs :
        Serve(Query_challenges(dataStore, blockDashedName)) /\ UNCHANGED dataStore

ServeCertifications == Serve(Query_certifications(dataStore)) /\ UNCHANGED dataStore

\* the chapters resolver emptying the superblock table it has read
ServeChapters_Clearing ==
    \E superblockDashedName \in QuerySuperblockArgs :
        /\ Serve(Query_chapters(dataStore, superblockDashedName))
        /\ dataStore' = [dataStore EXCEPT !.superblocks = EmptyMap]

ServeChapters ==
    \E superblockDashedName \in QuerySuperblockArgs :
        Serve(Query_chapters(dataStore, superblockDashedName)) /\ UNCHANGED dataStore

ServeModules ==
    \E superblockDashedName \in QuerySuperblockArgs, chapterDashedName \in QueryChapterArgs :
        Serve(Query_modules(dataStore, superblockDashedName, chapterDashedName))
        /\ UNCHANGED dataStore

ServeHealth == Serve(Query_health(dataStore)) /\ UNCHANGED dataStore

\* the request handler answers the readiness probe
ServeReady == Serve(Probe_ready(ready)) /\ UNCHANGED dataStore

\* the response is written and the request is over
Respond ==
    /\ proc = "serving"
    /\ answer # NoAnswer
    /\ answer' = NoAnswer
    /\ UNCHANGED <<proc, exitCode, server, dataStore, pipelineVars>>

Next ==
    \/ MainConfigure
    \/ Phase1 \/ Phase2 \/ Phase3 \/ Phase4 \/ Phase5 \/ Phase6
    \/ Phase7_8 \/ Phase9 \/ Phase10 \/ Phase11_12
    \/ MainLoaded \/ MainCatch \/ MainStartServer
    \/ ServeCurriculum \/ ServeSuperblock \/ ServeSuperblocks \/ ServeBlock
    \/ ServeChallenge \/ ServeBlocks \/ ServeChallenges \/ ServeCertifications
    \/ ServeChapters \/ ServeModules \/ ServeHealth \/ ServeReady \/ Respond

Spec == Init /\ [][Next]_vars

SpecBlocks == InitBlocks /\ [][Next]_vars

\* the process on a small data directory; it keeps taking steps while it can:
\* the event loop runs main() on, and the server keeps answering requests
InitLive == InitFrom("startup")

SpecLive == InitLive /\ [][Next]_vars /\ WF_vars(Next)

(***************************************************************************)
(* A bulk load on its own (loader.ts): the reads are issued together and    *)
(* complete in any order; Promise.all resolves once all have completed      *)
(***************************************************************************)
BulkNames == {"", "x", "y"}

BulkDocuments(kind) ==
    IF kind = "superblock"
    THEN {FlatSuperblock(<<>>), FlatSuperblock(<<"blk1">>)}
    ELSE {RawBlock("Block", <<Challenge1>>, JStr("link"), JUndefined,
                   RequiredAbsent, JUndefined, JUndefined),
          RawBlock("Other", <<Challenge2>>, JStr("link"), JUndefined,
                   RequiredAbsent, JUndefined, JUndefined)}

BulkDummy(kind) == IF kind = "superblock" THEN NoSuperblock ELSE NoBlock

BulkFileStates(kind) ==
    {FileMissing(BulkDummy(kind)), FileMalformed(BulkDummy(kind))}
    \cup {FileOk(doc) : doc \in BulkDocuments(kind)}

\* the single-file loader the bulk load maps over its names
BulkLoadFile(kind, files, dashedName) ==
    IF kind = "superblock"
    THEN loadSuperblockFile(files, dashedName)
    ELSE loadBlockFile(files, dashedName)

InitBulk ==
    /\ ProcessInit("structure")
    /\ EnumsIdle
    /\ bulkKind \in {"superblock", "block"}
    /\ bulkNames \in SeqUpTo(BulkNames, MaxNames)
    /\ bulkFiles \in [BulkNames -> BulkFileStates(bulkKind) \cup {Unread(BulkDummy(bulkKind))}]
    /\ \A n \in BulkNames : (bulkFiles[n].state = "unread") <=> (n \notin Range(bulkNames))
    /\ bulkSettled = {}
    /\ bulkResults = [i \in DOMAIN bulkNames |-> Fail(NoError, BulkDummy(bulkKind))]
    /\ bulkPc = "reading"
    /\ bulkReturn = NoBulkReturn

\* a bulk load that collects the results in the order the reads complete
BulkSettle_CompletionOrder ==
    /\ bulkPc = "reading"
    /\ \E i \in DOMAIN bulkNames \ bulkSettled :
          /\ bulkResults' = [bulkResults EXCEPT
                                ![Cardinality(bulkSettled) + 1] =
                                    BulkLoadFile(bulkKind, bulkFiles, bulkNames[i])]
          /\ bulkSettled' = bulkSettled \cup {i}
    /\ UNCHANGED <<bulkKind, bulkNames, bulkFiles, bulkPc, bulkReturn>>
    /\ UNCHANGED <<enumVars, corpus, earlierCalls, ready, disk, reads, proc, exitCode, server, pc,
                   phases, result, dataStore, answer, localVars>>

\* one of the pending reads completes
BulkSettle ==
    /\ bulkPc = "reading"
    /\ \E i \in DOMAIN bulkNames \ bulkSettled :
          /\ bulkResults' = [bulkResults EXCEPT
                                ![i] = BulkLoadFile(bulkKind, bulkFiles, bulkNames[i])]
          /\ bulkSettled' = bulkSettled \cup {i}
    /\ UNCHANGED <<bulkKind, bulkNames, bulkFiles, bulkPc, bulkReturn>>
    /\ UNCHANGED <<enumVars, corpus, earlierCalls, ready, disk, reads, proc, exitCode, server, pc,
                   phases, result, dataStore, answer, localVars>>

\* Promise.all has resolved: the results are scanned in position order
BulkResume ==
    /\ bulkPc = "reading"
    /\ bulkSettled = DOMAIN bulkNames
    /\ bulkReturn' = BulkReturn(bulkNames, bulkResults)
    /\ bulkPc' = "done"
    /\ UNCHANGED <<bulkKind, bulkNames, bulkFiles, bulkSettled, bulkResults>>
    /\ UNCHANGED <<enumVars, corpus, earlierCalls, ready, disk, reads, proc, exitCode, server, pc,
                   phases, result, dataStore, answer, localVars>>

NextBulk == BulkSettle \/ BulkResume

SpecBulk == InitBulk /\ [][NextBulk]_vars

(***************************************************************************)
(* initializeDataStore called more than once over one data directory, as    *)
(* the test suites do; the awaits of phases 2 and 4 are taken at the grain  *)
(* of the single reads, which complete in any order                         *)
(***************************************************************************)
\* what the call of initializeDataStore that has ended came to
Outcome == [threw |-> pc = "threw", result |-> result]

\* the files found are the files earlier reads found
SameAsBefore(files, known) ==
    \A n \in DOMAIN files : files[n] \in ReadFinds(known[n], {files[n]})

\* await initializeDataStore(dataPath): a call begins with fresh locals
CallInitializeDataStore ==
    /\ pc \in {"idle", "returned", "threw"}
    /\ Len(earlierCalls) + (IF pc = "idle" THEN 0 ELSE 1) < MaxCalls
    /\ earlierCalls' = IF pc = "idle" THEN earlierCalls ELSE Append(earlierCalls, Outcome)
    /\ pc' = "phase1"
    /\ phases' = <<>>
    /\ result' = NoResult
    /\ rawCurriculum' = NoCurriculum
    /\ rawSuperblocks' = EmptyMap
    /\ allBlockNames' = <<>>
    /\ rawBlocks' = EmptyMap
    /\ curriculum' = normalizeCurriculum(NoCurriculum)
    /\ superblocks' = EmptyMap
    /\ blockToSuperblocks' = EmptyMap
    /\ blocks' = EmptyMap
    /\ bulkKind' = "none"
    /\ bulkNames' = <<>>
    /\ bulkFiles' = <<>>
    /\ bulkSettled' = {}
    /\ bulkResults' = <<>>
    /\ bulkPc' = "idle"
    /\ bulkReturn' = NoBulkReturn
    /\ UNCHANGED <<enumVars, corpus, ready, disk, reads, proc, exitCode, server, dataStore,
                   answer>>

\* Phase 2 up to the await: loadAllSuperblocks has issued every read
Phase2Issue ==
    /\ pc = "phase2"
    /\ \E files \in FilesFor(corpus, "superblock", Range(rawCurriculum.superblocks)) :
          LET onDisk == [n \in SuperblockNames |->
                            IF n \in DOMAIN files THEN files[n] ELSE disk.superblocks[n]]
          IN  /\ SameAsBefore(files, disk.superblocks)
              /\ disk' = [disk EXCEPT !.superblocks = onDisk]
              /\ bulkFiles' = onDisk
    /\ reads' = reads \o [i \in DOMAIN rawCurriculum.superblocks |->
                             SuperblockPath(rawCurriculum.superblocks[i])]
    /\ phases' = Append(phases, "loadAllSuperblocks")
    /\ bulkKind' = "superblock"
    /\ bulkNames' = rawCurriculum.superblocks
    /\ bulkSettled' = {}
    /\ bulkResults' = [i \in DOMAIN rawCurriculum.superblocks |-> Fail(NoError, NoSuperblock)]
    /\ bulkPc' = "reading"
    /\ bulkReturn' = NoBulkReturn
    /\ pc' = "phase2reading"
    /\ UNCHANGED <<enumVars, corpus, earlierCalls, ready, proc, exitCode, server, dataStore, answer,
                   result, localVars>>

\* Phase 2 from the await on: loadAllSuperblocks has returned
Phase2Resumed ==
    /\ pc = "phase2reading"
    /\ bulkPc = "done"
    /\ LET superblockResult == bulkReturn
       IN  IF ~superblockResult.success
           THEN /\ Return(Fail(superblockResult.error, NoStore))
                /\ UNCHANGED rawSuperblocks
           ELSE /\ rawSuperblocks' = superblockResult.data
                /\ pc' = "phase3"
                /\ UNCHANGED result
    /\ UNCHANGED <<mainVars, disk, reads, phases, rawCurriculum, allBlockNames, rawBlocks,
                   curriculum, superblocks, blockToSuperblocks, blocks>>

\* Phase 4 up to the await: loadAllBlocks has issued every read
Phase4Issue ==
    /\ pc = "phase4"
    /\ \E files \in FilesFor(corpus, "block", Range(allBlockNames)) :
          LET onDisk == [n \in BlockNames |->
                            IF n \in DOMAIN files THEN files[n] ELSE disk.blocks[n]]
          IN  /\ SameAsBefore(files, disk.blocks)
              /\ disk' = [disk EXCEPT !.blocks = onDisk]
              /\ bulkFiles' = onDisk
    /\ reads' = reads \o [i \in DOMAIN allBlockNames |-> BlockPath(allBlockNames[i])]
    /\ phases' = Append(phases, "loadAllBlocks")
    /\ bulkKind' = "block"
    /\ bulkNames' = allBlockNames
    /\ bulkSettled' = {}
    /\ bulkResults' = [i \in DOMAIN allBlockNames |-> Fail(NoError, NoBlock)]
    /\ bulkPc' = "reading"
    /\ bulkReturn' = NoBulkReturn
    /\ pc' = "phase4reading"
    /\ UNCHANGED <<enumVars, corpus, earlierCalls, ready, proc, exitCode, server, dataStore, answer,
                   result, localVars>>

\* Phase 4 from the await on: loadAllBlocks has returned
Phase4Resumed ==
    /\ pc = "phase4reading"
    /\ bulkPc = "done"
    /\ LET blockResult == bulkReturn
       IN  IF ~blockResult.success
           THEN /\ Return(Fail(blockResult.error, NoStore))
                /\ UNCHANGED rawBlocks
           ELSE /\ rawBlocks' = blockResult.data
                /\ pc' = "phase5"
                /\ UNCHANGED result
    /\ UNCHANGED <<mainVars, disk, reads, phases, rawCurriculum, rawSuperblocks, allBlockNames,
                   curriculum, superblocks, blockToSuperblocks, blocks>>

InitReload == InitFrom("reload")

NextReload ==
    \/ CallInitializeDataStore
    \/ Phase1 \/ Phase2Issue \/ Phase2Resumed \/ Phase3 \/ Phase4Issue \/ Phase4Resumed
    \/ BulkSettle \/ BulkResume
    \/ Phase5 \/ Phase6 \/ Phase7_8 \/ Phase9 \/ Phase10 \/ Phase11_12

SpecReload == InitReload /\ [][NextReload]_vars

(***************************************************************************)
(* The enum normalizers on their own (normalizer.ts), applied to two raw    *)
(* values of the raw literal types                                          *)
(***************************************************************************)
\* the values a block's blockLayout / blockLabel can hold once validated
RawEnumValues(kind) ==
    IF kind = "layout" THEN {JStr(l) : l \in RawBlockLayouts}
    ELSE {JStr(l) : l \in RawBlockLabels} \cup {JUndefined}

InitEnums ==
    /\ ProcessInit("structure")
    /\ bulkKind = "none"
    /\ bulkNames = <<>>
    /\ bulkFiles = <<>>
    /\ bulkSettled = {}
    /\ bulkResults = <<>>
    /\ bulkPc = "idle"
    /\ bulkReturn = NoBulkReturn
    /\ enumKind \in {"layout", "label"}
    /\ enumRaw \in [1..2 -> RawEnumValues(enumKind)]
    /\ enumOut = <<JUndefined, JUndefined>>
    /\ enumPc = "raw"

NormalizeEnums ==
    /\ enumPc = "raw"
    /\ enumOut' = [i \in 1..2 |->
                      IF enumKind = "layout" THEN normalizeBlockLayout(enumRaw[i])
                      ELSE normalizeBlockLabel(enumRaw[i])]
    /\ enumPc' = "normalized"
    /\ UNCHANGED <<enumKind, enumRaw, bulkVars>>
    /\ UNCHANGED <<corpus, earlierCalls, ready, disk, reads, proc, exitCode, server, pc, phases,
                   result, dataStore, answer, localVars>>

NextEnums == NormalizeEnums

SpecEnums == InitEnums /\ [][NextEnums]_vars

(***************************************************************************)
(* Properties                                                               *)
(***************************************************************************)
PhaseOrder ==
    <<"loadCurriculum", "loadAllSuperblocks", "collectBlockNames", "loadAllBlocks",
      "validateReferences", "validateBlocks", "normalizeSuperblocks",
      "buildReverseIndex", "normalizeBlocks", "buildDataStore">>

IsPrefix(s, t) == Len(s) <= Len(t) /\ \A i \in DOMAIN s : s[i] = t[i]

Last(s) == s[Len(s)]

\* the Result a phase that has run yielded, recomputed from the files it read
\* and the locals it was given; phases that yield no Result never fail
PhaseFailed(phase) ==
    CASE phase = "loadCurriculum" -> ~loadCurriculumFile(disk.curriculum).success
      [] phase = "loadAllSuperblocks" ->
            ~loadAllSuperblocks(disk.superblocks, rawCurriculum.superblocks).success
      [] phase = "loadAllBlocks" -> ~loadAllBlocks(disk.blocks, allBlockNames).success
      [] phase = "validateReferences" ->
            ~validateSuperblockReferences(rawSuperblocks, rawBlocks).success
      [] phase = "validateBlocks" -> ~ValidateAllBlocks(rawBlocks, 1).success
      [] OTHER -> FALSE

PhaseError(phase) ==
    CASE phase = "loadCurriculum" -> loadCurriculumFile(disk.curriculum).error
      [] phase = "loadAllSuperblocks" ->
            loadAllSuperblocks(disk.superblocks, rawCurriculum.superblocks).error
      [] phase = "loadAllBlocks" -> loadAllBlocks(disk.blocks, allBlockNames).error
      [] phase = "validateReferences" ->
            validateSuperblockReferences(rawSuperblocks, rawBlocks).error
      [] phase = "validateBlocks" -> ValidateAllBlocks(rawBlocks, 1).error
      [] OTHER -> NoError

Returned == pc = "returned"

IsBlockRead(path) == Len(path) = 3 /\ path[2] = "blocks"

\* C1: initializeDataStore is fail-fast.  The phases run in the fixed order; a
\* phase that has a successor in the run did not fail; when a phase fails it is
\* the last one to run, the Result returned is a failure carrying exactly that
\* phase's error, and no block file is read after a failed superblock load; a
\* success Result is returned only when all phases have run and none failed.
C1_FailFast ==
    /\ IsPrefix(phases, PhaseOrder)
    /\ \A i \in DOMAIN phases :
          PhaseFailed(phases[i]) =>
              /\ i = Len(phases)
              /\ Returned
              /\ ~result.success
              /\ result.error = PhaseError(phases[i])
              /\ dataStore = NoStore
    /\ (Returned /\ ~result.success) =>
          /\ PhaseFailed(Last(phases))
          /\ (Last(phases) = "loadAllSuperblocks" =>
                 \A i \in DOMAIN reads : ~IsBlockRead(reads[i]))
    /\ (Returned /\ result.success) => phases = PhaseOrder
    /\ (~Returned) => result = NoResult

\* C1 witness: a superblock load has failed and the driver has returned
C1_Witness ==
    /\ Returned
    /\ ~result.success
    /\ Last(phases) = "loadAllSuperblocks"
    /\ Len(rawCurriculum.superblocks) = 2

\* the loaded superblocks whose file references block name b, flat or via a module
ReferencingSuperblocks(b) ==
    {rawSuperblocks[i].k : i \in {j \in DOMAIN rawSuperblocks :
                                     b \in Range(BlockReferences(rawSuperblocks[j].v))}}

\* the (superblock, block) references to a block whose file does not exist
DanglingReferences ==
    {<<s, b>> \in SuperblockNames \X BlockNames :
        /\ s \in ReferencingSuperblocks(b)
        /\ disk.blocks[b].state = "missing"}

\* C2: when a loaded superblock references, in its flat list or in a module, a
\* block whose file does not exist, initializeDataStore returns a failure whose
\* message contains both the missing block's identifier and the identifier of
\* a superblock that references it.
C2_MissingBlockNamesBoth ==
    (Returned /\ DanglingReferences # {}) =>
        /\ ~result.success
        /\ \E ref \in DanglingReferences :
              /\ MessageContains(result.error, ref[2])
              /\ MessageContains(result.error, ref[1])

\* C3: referential closure of a successfully built store: every stored block's
\* parent list is non-empty, and a loaded superblock is in the list if and only
\* if its file references the block in its flat list or in any module.
C3_ReferentialClosure ==
    (Returned /\ result.success) =>
        \A i \in DOMAIN result.data.blocks :
            LET block == result.data.blocks[i].v
            IN  /\ block.superblockDashedNames # <<>>
                /\ Range(block.superblockDashedNames)
                      = ReferencingSuperblocks(result.data.blocks[i].k)

\* C4: in every successfully built store, every block identifier in every
\* stored superblock's flattened block list is a key of the block table, and
\* the block stored under that key carries the identifier as its dashedName.
C4_FlattenedBlocksResolve ==
    (Returned /\ result.success) =>
        \A i \in DOMAIN result.data.superblocks :
            \A j \in DOMAIN result.data.superblocks[i].v.blocks :
                LET id == result.data.superblocks[i].v.blocks[j]
                    hits == {k \in DOMAIN result.data.blocks : result.data.blocks[k].k = id}
                IN  /\ Cardinality(hits) = 1
                    /\ \A k \in hits : result.data.blocks[k].v.dashedName = id

\* C4 witness: a store was built whose superblocks list two different blocks
C4_Witness ==
    /\ Returned
    /\ result.success
    /\ \E i \in DOMAIN result.data.superblocks :
          Cardinality(Range(result.data.superblocks[i].v.blocks)) = 2
    /\ MapSize(result.data.superblocks) = 2

\* C5: the zero-parent abort is unreachable: whenever phases 1-6 have succeeded,
\* whatever the shape of the superblock files, every loaded block has a parent
\* in the reverse index and phase 10 does not throw.
C5_NoZeroParentAbort ==
    /\ pc # "threw"
    /\ pc = "phase10" =>
          \A i \in DOMAIN rawBlocks : ~HasNoParent(blockToSuperblocks, rawBlocks[i].k)

\* the positions of the bulk load's input whose read or parse fails
BulkFailing == {i \in DOMAIN bulkNames : bulkFiles[bulkNames[i]].state # "ok"}

\* C6: a bulk load of concurrent reads returns failure when any read or parse
\* fails, in whatever order the reads completed, and the error is that of the
\* failing identifier at the lowest position of the input; when none fails it
\* returns a map with exactly one entry per distinct identifier, holding that
\* identifier's document (an empty input gives an empty map).
C6_BulkLoad ==
    bulkPc = "done" =>
        IF BulkFailing # {}
        THEN LET first == CHOOSE i \in BulkFailing : \A j \in BulkFailing : i <= j
             IN  /\ ~bulkReturn.success
                 /\ bulkReturn.data = EmptyMap
                 /\ bulkReturn.error
                       = BulkLoadFile(bulkKind, bulkFiles, bulkNames[first]).error
        ELSE /\ bulkReturn.success
             /\ MapKeys(bulkReturn.data) = Range(bulkNames)
             /\ MapSize(bulkReturn.data) = Cardinality(Range(bulkNames))
             /\ \A n \in Range(bulkNames) :
                   \E i \in DOMAIN bulkReturn.data :
                       /\ bulkReturn.data[i].k = n
                       /\ bulkReturn.data[i].v = bulkFiles[n].data

\* the null-or-entity a lookup must answer for key in table
Expected(table, key, answered) ==
    IF \E i \in DOMAIN table : table[i].k = key
    THEN /\ ~answered.isNull
         /\ \E i \in DOMAIN table : table[i].k = key /\ table[i].v = answered.entity
    ELSE answered.isNull

\* C7: the provider's lookups never fail: getSuperblock, getBlock and
\* getChallenge answer the stored entity when the key is present and null when
\* it is absent, for every key asked; getCurriculum answers the curriculum of
\* the store the provider was built from.
C7_LookupsTotal ==
    /\ answer.op = "superblock" =>
          Expected(result.data.superblocks, answer.arg, answer.superblock)
    /\ answer.op = "block" => Expected(result.data.blocks, answer.arg, answer.block)
    /\ answer.op = "challenge" =>
          Expected(result.data.challenges, JStr(answer.arg), answer.challenge)
    /\ answer.op = "curriculum" => answer.curriculum = result.data.curriculum

\* C7 witness: a block that is not in a non-empty store was asked for
C7_Witness ==
    /\ answer.op = "block"
    /\ answer.arg = "no-such-block"
    /\ answer.block.isNull
    /\ MapSize(dataStore.blocks) = 2

\* C8: the store is read-only after construction: once initializeDataStore has
\* returned it, no provider lookup and no resolver query changes the curriculum
\* singleton or any of the three tables, so every lookup answers the same for
\* the same key before and after any request.
C8_StoreReadOnly ==
    [][(Returned /\ result.success) =>
          /\ result' = result
          /\ (proc \in {"starting", "serving"} =>
                 /\ dataStore' = dataStore
                 /\ dataStore.curriculum = result.data.curriculum
                 /\ dataStore.superblocks = result.data.superblocks
                 /\ dataStore.blocks = result.data.blocks
                 /\ dataStore.challenges = result.data.challenges
                 /\ \A key \in QueryBlockArgs :
                       getBlock(dataStore', key) = getBlock(dataStore, key))]_vars

\* C8 witness: the chapters resolver has answered from a store with chapters
C8_Witness ==
    /\ proc = "serving"
    /\ answer.op = "chapters"
    /\ answer.chapters # <<>>
    /\ MapSize(dataStore.superblocks) = 2

\* the load has failed or aborted
LoadFailed == pc = "threw" \/ (Returned /\ ~result.success)

\* C9: process-level fail-fast: the server is created and listens only after
\* initializeDataStore has returned success, serving the store it returned;
\* when the load returns a failure or throws, the only step the process takes
\* is to exit with a non-zero status, and the server is never created.
C9_ProcessFailFast ==
    /\ [](/\ server # "none" => (Returned /\ result.success /\ dataStore = result.data)
          /\ LoadFailed => (/\ server = "none"
                            /\ proc \in {"loading", "exited"}
                            /\ proc = "exited" => exitCode # 0
                            /\ proc = "loading" => exitCode = -1))
    /\ [][LoadFailed => (proc' = "exited" /\ exitCode' # 0 /\ server' = "none")]_vars

\* C9 witness: the process has exited after a load failure
C9_Witness ==
    /\ Returned
    /\ ~result.success
    /\ proc = "exited"
    /\ exitCode = 1
    /\ Last(phases) = "validateBlocks"

\* the literals the block documents may use for blockLayout and blockLabel
AllowedLayouts ==
    {"link", "challenge-list", "challenge-grid", "dialogue-grid", "project-list",
     "legacy-challenge-list", "legacy-challenge-grid", "legacy-link"}

AllowedLabels ==
    {"lecture", "lab", "workshop", "review", "quiz", "exam", "warm-up", "practice", "learn"}

IsOneOf(v, literals) == v[1] = "string" /\ v[2] \in literals

\* what validateBlockEnums owes for one block and one path
EnumCheckObeyed(block, blockPath) ==
    LET checked == validateBlockEnums(block, blockPath)
        layoutOk == IsOneOf(block.blockLayout, AllowedLayouts)
        labelOk == block.blockLabel = JUndefined \/ IsOneOf(block.blockLabel, AllowedLabels)
        othersOk == /\ block.required.tag \in {"undefined", "array"}
                    /\ \A i \in DOMAIN block.required.items :
                          /\ ~block.required.items[i].isNull
                          /\ \/ TypeOf(block.required.items[i].src) = "string"
                             \/ TypeOf(block.required.items[i].link) = "string"
                    /\ block.template = JUndefined \/ TypeOf(block.template) = "string"
    IN  /\ ~layoutOk =>
              /\ ~checked.success
              /\ checked.error.field = <<"blockLayout">>
              /\ MessageContains(checked.error, JsString(block.blockLayout))
              /\ checked.error.filePath = blockPath
        /\ (layoutOk /\ ~labelOk) =>
              /\ ~checked.success
              /\ checked.error.field = <<"blockLabel">>
              /\ MessageContains(checked.error, JsString(block.blockLabel))
              /\ checked.error.filePath = blockPath
        /\ (layoutOk /\ labelOk /\ othersOk) => checked.success

StringFields(resource) ==
    (IF TypeOf(resource.src) = "string" THEN 1 ELSE 0)
    + (IF TypeOf(resource.link) = "string" THEN 1 ELSE 0)

\* C11: when a block has a required-resources list, validateBlockEnums accepts
\* an entry only if it carries exactly one of src and link as a string: a block
\* whose list holds an entry with neither, or with both, is rejected.
C11_ExactlyOneResourceField ==
    \A i \in DOMAIN rawBlocks :
        LET block == rawBlocks[i].v
        IN  (block.required.tag = "array"
             /\ validateBlockEnums(block, BlockPath(rawBlocks[i].k)).success) =>
                \A j \in DOMAIN block.required.items :
                    /\ ~block.required.items[j].isNull
                    /\ StringFields(block.required.items[j]) = 1

\* an entry of challengeOrder has a non-empty string under id / under title
HasId(challenge) ==
    ~challenge.isNull /\ challenge.id[1] = "string" /\ challenge.id[2] # ""

HasTitle(challenge) ==
    ~challenge.isNull /\ challenge.title[1] = "string" /\ challenge.title[2] # ""

\* what validateChallengeStructure owes for one list and one path
ChallengeCheckObeyed(challenges, blockPath) ==
    LET checked == validateChallengeStructure(challenges, blockPath)
        bad == {j \in DOMAIN challenges : ~(HasId(challenges[j]) /\ HasTitle(challenges[j]))}
    IN  /\ checked.success <=> (Len(challenges) > 0 /\ bad = {})
        /\ Len(challenges) = 0 =>
              /\ checked.error.field = <<"challengeOrder">>
              /\ checked.error.filePath = blockPath
        /\ bad # {} =>
              LET first == CHOOSE j \in bad : \A k \in bad : j <= k
                  index == ToString(first - 1)
              IN  /\ checked.error.field
                        = <<"challengeOrder", index,
                            IF HasId(challenges[first]) THEN "title" ELSE "id">>
                  /\ MessageContains(checked.error, index)
                  /\ checked.error.filePath = blockPath

\* C12: validateChallengeStructure fails with field challengeOrder on an empty
\* list; otherwise it fails at the lowest index whose entry is null, lacks a
\* non-empty string id (field challengeOrder[i].id) or, the id being fine,
\* lacks a non-empty string title (field challengeOrder[i].title), the message
\* naming that index; it succeeds exactly when the list is non-empty and every
\* entry has a non-empty string id and title.
C12_ChallengeShape ==
    \A i \in DOMAIN rawBlocks :
        /\ ChallengeCheckObeyed(rawBlocks[i].v.challengeOrder, BlockPath(rawBlocks[i].k))
        /\ ChallengeCheckObeyed(rawBlocks[i].v.challengeOrder, <<"elsewhere", "block.json">>)

\* C12 witness: the load has failed on the title of a block's second challenge
C12_Witness ==
    /\ Returned
    /\ ~result.success
    /\ result.error.field = <<"challengeOrder", "1", "title">>
    /\ \E i \in DOMAIN rawBlocks : HasId(rawBlocks[i].v.challengeOrder[2])

\* the manifest lists a certification that is not a loaded superblock
UnknownCertification ==
    \E i \in DOMAIN rawCurriculum.certifications :
        ~MapHas(rawSuperblocks, rawCurriculum.certifications[i])

ManifestOrder == FirstOccurrences(rawCurriculum.superblocks, {})

\* the stored superblocks that list block name b, in manifest order
ListingSuperblocks(b) ==
    LET Lists(s) == /\ MapHas(result.data.superblocks, s)
                    /\ b \in Range(MapGet(result.data.superblocks, s).blocks)
    IN  SelectSeq(ManifestOrder, Lists)

CanonicalLayouts ==
    {"LINK", "CHALLENGE_LIST", "CHALLENGE_GRID", "DIALOGUE_GRID", "PROJECT_LIST",
     "LEGACY_CHALLENGE_LIST", "LEGACY_CHALLENGE_GRID", "LEGACY_LINK"}

CanonicalLabels ==
    {"LECTURE", "LAB", "WORKSHOP", "REVIEW", "QUIZ", "EXAM", "WARM_UP", "PRACTICE", "LEARN"}

\* C15: the enum mapping is a bijection: normalizeBlockLayout maps each of the
\* 8 raw layout literals to one canonical symbol and no two literals to the
\* same symbol, every canonical symbol being the image of a literal;
\* normalizeBlockLabel does the same for the 9 raw label literals and maps an
\* absent label to null.
C15_EnumBijection ==
    enumPc = "normalized" =>
        LET literals == IF enumKind = "layout" THEN AllowedLayouts ELSE AllowedLabels
            symbols == IF enumKind = "layout" THEN CanonicalLayouts ELSE CanonicalLabels
            Normalize(raw) == IF enumKind = "layout" THEN normalizeBlockLayout(raw)
                              ELSE normalizeBlockLabel(raw)
        IN  /\ \A i \in 1..2 :
                  /\ IsOneOf(enumRaw[i], literals) => IsOneOf(enumOut[i], symbols)
                  /\ (enumKind = "label" /\ enumRaw[i] = JUndefined) => enumOut[i] = JNull
            /\ (enumRaw[1] = enumRaw[2]) <=> (enumOut[1] = enumOut[2])
            /\ {Normalize(JStr(l)) : l \in literals} = {JStr(c) : c \in symbols}
            /\ Cardinality(literals) = Cardinality(symbols)

\* C15 witness: two different labels were normalized, and so was an absent one
C15_Witness ==
    /\ enumPc = "normalized"
    /\ enumKind = "label"
    /\ enumRaw = <<JStr("warm-up"), JUndefined>>
    /\ enumOut = <<JStr("WARM_UP"), JNull>>

\* C16: in every successfully built store every block's layout is one of the 8
\* canonical layout symbols, never undefined, and its label is one of the 9
\* canonical label symbols or null: the literals the validator accepts are
\* exactly the keys of the normalizer's mapping tables.
C16_StoredEnumsDefined ==
    /\ Range(VALID_BLOCK_LAYOUTS) = DOMAIN BLOCK_LAYOUT_MAPPING
    /\ Range(VALID_BLOCK_LABELS) = DOMAIN BLOCK_LABEL_MAPPING
    /\ (Returned /\ result.success) =>
          \A i \in DOMAIN result.data.blocks :
              LET block == result.data.blocks[i].v
              IN  /\ IsOneOf(block.blockLayout, CanonicalLayouts)
                  /\ block.blockLabel = JNull \/ IsOneOf(block.blockLabel, CanonicalLabels)

\* C16 witness: a store holds a block normalized from the last literal of each
\* validator list
C16_Witness ==
    /\ Returned
    /\ result.success
    /\ \E i \in DOMAIN result.data.blocks :
          /\ result.data.blocks[i].v.blockLayout = JStr("LEGACY_LINK")
          /\ result.data.blocks[i].v.blockLabel = JStr("LEARN")
          /\ rawBlocks[i].v.blockLayout = JStr("legacy-link")

\* a normalized field is present, and holds null where the raw field was absent
Marked(rawValue, value) ==
    /\ value # JUndefined
    /\ rawValue = JUndefined => value = JNull

\* C17: in every normalized entity every optional raw field that was absent is
\* present as an explicit null, never undefined: for blocks the label, the four
\* editor flags, required and template; for required-resource entries src and
\* link; for modules moduleType.
C17_ExplicitNulls ==
    (Returned /\ result.success) =>
        /\ \A i \in DOMAIN result.data.blocks :
              LET raw == MapGet(rawBlocks, result.data.blocks[i].k)
                  block == result.data.blocks[i].v
              IN  /\ Marked(raw.blockLabel, block.blockLabel)
                  /\ Marked(raw.usesMultifileEditor, block.usesMultifileEditor)
                  /\ Marked(raw.hasEditableBoundaries, block.hasEditableBoundaries)
                  /\ Marked(raw.disableLoopProtectTests, block.disableLoopProtectTests)
                  /\ Marked(raw.disableLoopProtectPreview, block.disableLoopProtectPreview)
                  /\ Marked(raw.template, block.template)
                  /\ block.required.tag \in {"null", "array"}
                  /\ raw.required.tag = "undefined" <=> block.required.tag = "null"
                  /\ DOMAIN block.required.items = DOMAIN raw.required.items
                  /\ \A j \in DOMAIN block.required.items :
                        /\ Marked(raw.required.items[j].src, block.required.items[j].src)
                        /\ Marked(raw.required.items[j].link, block.required.items[j].link)
        /\ \A i \in DOMAIN result.data.superblocks :
              LET raw == MapGet(rawSuperblocks, result.data.superblocks[i].k)
                  superblock == result.data.superblocks[i].v
              IN  \A c \in DOMAIN superblock.chapters :
                      \A m \in DOMAIN superblock.chapters[c].modules :
                          Marked(raw.chapters[c].modules[m].moduleType,
                                 superblock.chapters[c].modules[m].moduleType)

\* C17 witness: a store holds a module without a type and a block whose
\* required entry has src but no link
C17_Witness ==
    /\ Returned
    /\ result.success
    /\ \E i \in DOMAIN result.data.superblocks :
          \E c \in DOMAIN result.data.superblocks[i].v.chapters :
              \E m \in DOMAIN result.data.superblocks[i].v.chapters[c].modules :
                  result.data.superblocks[i].v.chapters[c].modules[m].moduleType = JNull
    /\ \E i \in DOMAIN result.data.blocks :
          /\ result.data.blocks[i].v.required.tag = "array"
          /\ \E j \in DOMAIN result.data.blocks[i].v.required.items :
                /\ result.data.blocks[i].v.required.items[j].link = JNull
                /\ rawBlocks[i].v.required.items[j].link = JUndefined
          /\ result.data.blocks[i].v.blockLabel = JNull

\* C18: every normalized superblock of the store carries all its declared
\* attributes: identifier, display name, flattened block list, chapters list
\* and isCertification flag; in particular the display name is present.
C18_SuperblockAttributes ==
    (Returned /\ result.success) =>
        \A i \in DOMAIN result.data.superblocks :
            {"dashedName", "name", "blocks", "chapters", "isCertification"}
                \subseteq DOMAIN result.data.superblocks[i].v

\* the block names of a raw superblock's modules, chapter by chapter and module
\* by module, repetitions kept
RECURSIVE ModuleBlocks(_, _, _)
ModuleBlocks(chapters, c, m) ==
    IF c > Len(chapters) THEN <<>>
    ELSE IF m > Len(chapters[c].modules) THEN ModuleBlocks(chapters, c + 1, 1)
    ELSE chapters[c].modules[m].blocks \o ModuleBlocks(chapters, c, m + 1)

\* C19: normalizeSuperblock handles both schema generations: with chapters
\* present the flattened list is the concatenation of the module block lists in
\* chapter order then module order, duplicates kept; with chapters absent it is
\* the raw flat list in the same order, and the chapters list is empty.
C19_FlattenBothGenerations ==
    "normalizeSuperblocks" \in Range(phases) =>
        /\ Len(superblocks) = Len(rawSuperblocks)
        /\ \A i \in DOMAIN superblocks :
              LET raw == rawSuperblocks[i].v
                  superblock == superblocks[i].v
              IN  /\ superblocks[i].k = rawSuperblocks[i].k
                  /\ superblock.dashedName = superblocks[i].k
                  /\ raw.hasChapters =>
                        /\ superblock.blocks = ModuleBlocks(raw.chapters, 1, 1)
                        /\ Len(superblock.chapters) = Len(raw.chapters)
                  /\ ~raw.hasChapters =>
                        /\ superblock.blocks = (IF raw.hasBlocks THEN raw.blocks ELSE <<>>)
                        /\ superblock.chapters = <<>>

\* C19 witness: a chapters file whose modules repeat a block, next to a flat file
C19_Witness ==
    /\ "normalizeSuperblocks" \in Range(phases)
    /\ \E i \in DOMAIN superblocks : superblocks[i].v.blocks = <<"blk2", "blk2", "blk1">>
    /\ \E i \in DOMAIN superblocks :
          /\ ~rawSuperblocks[i].v.hasChapters
          /\ superblocks[i].v.blocks = <<"blk2", "blk1">>

\* the challenges of the stored blocks as (block position, position in the
\* block's list) pairs
StoredChallengeSlots ==
    UNION {{<<b, c>> : c \in DOMAIN result.data.blocks[b].v.challenges} :
              b \in DOMAIN result.data.blocks}

SlotChallenge(slot) == result.data.blocks[slot[1]].v.challenges[slot[2]]

\* slot s comes no later than slot t in flattening order
SlotBefore(s, t) == s[1] < t[1] \/ (s[1] = t[1] /\ s[2] <= t[2])

\* C20: the challenge table of a built store holds exactly the challenge ids of
\* the stored blocks' challenge lists; each entry's owning block is a block of
\* the store whose list contains that id; where an id occurs more than once the
\* entry kept is the last one in flattening order (block-table order, then the
\* position in the block's list), and the load does not fail for it.
C20_ChallengeTable ==
    (Returned /\ result.success) =>
        /\ MapKeys(result.data.challenges)
              = {SlotChallenge(s).id : s \in StoredChallengeSlots}
        /\ MapSize(result.data.challenges) = Cardinality(MapKeys(result.data.challenges))
        /\ \A i \in DOMAIN result.data.challenges :
              LET id == result.data.challenges[i].k
                  entry == result.data.challenges[i].v
                  slots == {s \in StoredChallengeSlots : SlotChallenge(s).id = id}
                  last == CHOOSE s \in slots : \A t \in slots : SlotBefore(t, s)
              IN  /\ entry = SlotChallenge(last)
                  /\ entry.id = id
                  /\ entry.blockDashedName = result.data.blocks[last[1]].k

\* C20 witness: two stored blocks list the same challenge id under different
\* titles, and the table holds the second block's
C20_Witness ==
    /\ Returned
    /\ result.success
    /\ MapSize(result.data.blocks) = 2
    /\ \E c \in DOMAIN result.data.blocks[1].v.challenges :
          LET earlier == result.data.blocks[1].v.challenges[c]
          IN  /\ MapHas(result.data.challenges, earlier.id)
              /\ MapGet(result.data.challenges, earlier.id).title # earlier.title
              /\ MapGet(result.data.challenges, earlier.id).blockDashedName
                    = result.data.blocks[2].k

\* a challenge entry holds id, title and blockDashedName and nothing else, id
\* and title being non-empty strings
IsChallengeMetadata(challenge) ==
    /\ DOMAIN challenge = {"id", "title", "blockDashedName"}
    /\ TypeOf(challenge.id) = "string" /\ challenge.id[2] # ""
    /\ TypeOf(challenge.title) = "string" /\ challenge.title[2] # ""

\* the challenge entries of a block table and of the challenge table built on it
OnlyChallengeMetadata(blockTable, challengeTable) ==
    /\ \A i \in DOMAIN blockTable : \A j \in DOMAIN blockTable[i].v.challenges :
          /\ IsChallengeMetadata(blockTable[i].v.challenges[j])
          /\ blockTable[i].v.challenges[j].blockDashedName = blockTable[i].k
    /\ \A i \in DOMAIN challengeTable :
          /\ IsChallengeMetadata(challengeTable[i].v)
          /\ \E b \in DOMAIN blockTable : \E j \in DOMAIN blockTable[b].v.challenges :
                blockTable[b].v.challenges[j] = challengeTable[i].v

\* C21: every challenge entry of the normalized blocks, of the store the load
\* returns and of the store the provider serves has exactly the fields id,
\* title and blockDashedName, with a non-empty string id and title and the
\* identifier of the block whose list holds it; no field of the raw challenge
\* object beyond id and title is carried over.
C21_ChallengeMetadataOnly ==
    /\ OnlyChallengeMetadata(blocks, EmptyMap)
    /\ (Returned /\ result.success) =>
           OnlyChallengeMetadata(result.data.blocks, result.data.challenges)
    /\ OnlyChallengeMetadata(dataStore.blocks, dataStore.challenges)

\* C21 witness: the store holds a challenge whose raw object carried content
C21_Witness ==
    /\ Returned
    /\ result.success
    /\ MapSize(result.data.challenges) > 0
    /\ \E i \in DOMAIN rawBlocks : \E j \in DOMAIN rawBlocks[i].v.challengeOrder :
          /\ rawBlocks[i].v.challengeOrder[j].description # JUndefined
          /\ MapHas(result.data.challenges, rawBlocks[i].v.challengeOrder[j].id)

\* C22: a call of initializeDataStore over files that earlier calls have read
\* ends as every earlier call ended: with the same thrown abort, or with a
\* value-equal Result (the same error, or a store whose normalized curriculum,
\* superblocks, blocks and challenges are equal), whatever order the reads of
\* the two bulk loads complete in during either call.
C22_SameOutcome ==
    pc \in {"returned", "threw"} => \A k \in DOMAIN earlierCalls : earlierCalls[k] = Outcome

\* C22 witness: a second call has returned a store with two superblocks and two
\* blocks, so both bulk loads had reads that could complete in either order
C22_Witness ==
    /\ Len(earlierCalls) = 1
    /\ Returned
    /\ result.success
    /\ MapSize(result.data.superblocks) = 2
    /\ MapSize(result.data.blocks) = 2
    /\ result.data.blocks[1].v # result.data.blocks[2].v

\* the isCertification flags of a superblock table follow a certification list
FlagsFollow(superblockTable, certifications) ==
    \A i \in DOMAIN superblockTable :
        superblockTable[i].v.isCertification
            <=> superblockTable[i].k \in Range(certifications)

\* C23: a stored superblock is flagged isCertification exactly when the
\* manifest's certification list holds its identifier; a certification without
\* a loaded superblock does not fail the load, and the certifications query
\* answers the manifest's list without such entries, in order, so that every
\* certification it answers resolves (Certification.superblock) to a stored
\* superblock whose flag is set.
C23_CertificationFlags ==
    /\ FlagsFollow(superblocks, curriculum.certifications)
    /\ (Returned /\ result.success) =>
           FlagsFollow(result.data.superblocks, result.data.curriculum.certifications)
    /\ FlagsFollow(dataStore.superblocks, dataStore.curriculum.certifications)
    /\ (UnknownCertification /\ Returned /\ ~result.success) =>
           ~MessageContains(result.error, "legacy-cert")
    /\ answer.op = "certifications" =>
          /\ answer.certifications
                = SelectSeq(dataStore.curriculum.certifications,
                            LAMBDA d : d \in MapKeys(dataStore.superblocks))
          /\ \A i \in DOMAIN answer.certifications :
                LET resolved == Certification_superblock(dataStore, answer.certifications[i])
                IN  /\ ~resolved.threw
                    /\ resolved.superblock.dashedName = answer.certifications[i]
                    /\ resolved.superblock.isCertification

\* C23 witness: the certifications query has answered one certification of a
\* manifest that lists two, the store holding a superblock that is none
C23_Witness ==
    /\ proc = "serving"
    /\ answer.op = "certifications"
    /\ Len(answer.certifications) = 1
    /\ Len(dataStore.curriculum.certifications) = 2
    /\ \E i \in DOMAIN dataStore.superblocks : ~dataStore.superblocks[i].v.isCertification

\* what a single-file loader owes for one file: the parsed document, or a
\* failure that carries the path attempted, names the identifier and has no field
FileResultObeyed(loaded, file, filePath, dashedName) ==
    /\ file.state = "ok" => (loaded.success /\ loaded.data = file.data)
    /\ file.state # "ok" =>
          /\ ~loaded.success
          /\ loaded.error.filePath = filePath
          /\ MessageContains(loaded.error, dashedName)
          /\ loaded.error.field = NoField

\* C24: loadCurriculumFile, loadSuperblockFile and loadBlockFile never raise:
\* for a file that parses each returns success with the parsed document, and
\* for a missing file as for malformed JSON each returns a failure whose error
\* has the path attempted (data/curriculum.json, data/superblocks/<id>.json,
\* data/blocks/<id>.json) as filePath, names the identifier in its message (for
\* a superblock or block) and has no field; the only call that ends by raising
\* has come as far as phase 10.
C24_SingleFileLoaders ==
    /\ phases = <<"loadCurriculum">> =>
          /\ FileResultObeyed(IF Returned THEN result ELSE Ok(rawCurriculum),
                              disk.curriculum, <<DataPath, "curriculum.json">>, "")
          /\ Returned <=> disk.curriculum.state # "ok"
    /\ \A i \in bulkSettled :
          FileResultObeyed(bulkResults[i], bulkFiles[bulkNames[i]],
                           <<DataPath, IF bulkKind = "superblock" THEN "superblocks"
                                       ELSE "blocks", bulkNames[i] \o ".json">>,
                           bulkNames[i])
    /\ pc = "threw" => Last(phases) = "normalizeBlocks"

\* C24 witness: of the block files read together one was malformed and one
\* was missing, and each read has returned its failure
C24_Witness ==
    /\ bulkKind = "block"
    /\ bulkSettled = DOMAIN bulkNames
    /\ \E i, j \in bulkSettled :
          /\ bulkFiles[bulkNames[i]].state = "malformed" /\ ~bulkResults[i].success
          /\ bulkFiles[bulkNames[j]].state = "missing" /\ ~bulkResults[j].success

\* C25: the block identifiers are de-duplicated before the block bulk-load, so
\* loadAllBlocks reads no block file more than once in a call.
C25_BlocksReadOnce ==
    /\ \A i, j \in DOMAIN allBlockNames : allBlockNames[i] = allBlockNames[j] => i = j
    /\ \A i, j \in DOMAIN reads :
          (IsBlockRead(reads[i]) /\ reads[i] = reads[j]) => i = j

\* the checks of phases 5 and 6 in the order the claim gives: the curriculum
\* check, the superblock-reference check, then per block of the block table the
\* enum check and the challenge-shape check
ValidationChecks ==
    <<validateCurriculumReferences, validateSuperblockReferences(rawSuperblocks, rawBlocks)>>
    \o Flatten([i \in DOMAIN rawBlocks |->
           <<validateBlockEnums(rawBlocks[i].v, BlockPath(rawBlocks[i].k)),
             validateChallengeStructure(rawBlocks[i].v.challengeOrder,
                                        BlockPath(rawBlocks[i].k))>>])

FailedChecks ==
    LET checks == ValidationChecks
    IN  {n \in DOMAIN checks : ~checks[n].success}

\* nothing has been normalized yet
NothingNormalized ==
    /\ curriculum = normalizeCurriculum(NoCurriculum)
    /\ superblocks = EmptyMap
    /\ blockToSuperblocks = EmptyMap
    /\ blocks = EmptyMap

\* C26: the checks run in the order curriculum check, superblock-reference
\* check, then for each block in block-table order the enum check and after it
\* the challenge-shape check; a call that returns from phase 5 or 6 returns the
\* error of the first check in this order that fails, from phase 5 exactly when
\* that is a reference check; the call goes on to normalize only when no check
\* fails and nothing is normalized before.
C26_ValidationOrder ==
    /\ (Returned /\ Last(phases) \in {"validateReferences", "validateBlocks"}) =>
          LET checks == ValidationChecks
              failed == {n \in DOMAIN checks : ~checks[n].success}
              first  == CHOOSE n \in failed : \A k \in failed : n <= k
          IN  /\ failed # {}
              /\ ~result.success
              /\ result.error = checks[first].error
              /\ Last(phases) = "validateReferences" <=> first <= 2
    /\ pc = "phase6" => FailedChecks \cap {1, 2} = {}
    /\ pc = "phase7" => FailedChecks = {}
    /\ "normalizeSuperblocks" \notin Range(phases) => NothingNormalized

\* C26 witness: the first block has a bad layout, the second block an empty
\* challenge list, and the call has returned the first block's enum error
C26_Witness ==
    /\ Returned
    /\ MapSize(rawBlocks) = 2
    /\ FailedChecks = {3, 6}
    /\ result.error.field = <<"blockLayout">>
    /\ result.error.filePath = BlockPath(rawBlocks[1].k)

\* a loaded block that no stored superblock lists
ZeroParentBlock ==
    \E i \in DOMAIN rawBlocks : HasNoParent(blockToSuperblocks, rawBlocks[i].k)

\* C27: a block with zero parent superblocks makes initializeDataStore abort by
\* throwing instead of returning a failure Result: the call throws in phase 10
\* exactly when some loaded block has no parent, after every check of phases 5
\* and 6 has passed and with no Result and no normalized block; no call returns
\* from phase 10; and once a call has thrown it never returns a Result and the
\* process never holds a store.
C27_ZeroParentThrows ==
    /\ [](/\ pc = "threw" =>
                /\ ZeroParentBlock
                /\ phases = SubSeq(PhaseOrder, 1, Len(PhaseOrder) - 1)
                /\ FailedChecks = {}
                /\ result = NoResult
                /\ blocks = EmptyMap
                /\ dataStore = NoStore
                /\ server = "none"
          /\ pc = "phase11" => ~ZeroParentBlock
          /\ Returned => Last(phases) # "normalizeBlocks")
    /\ [][pc = "threw" => (pc' = "threw" /\ result' = NoResult /\ dataStore' = NoStore)]_vars

\* C27 witness: the call has thrown on an orphaned block and main().catch has
\* ended the process
C27_Witness ==
    /\ pc = "threw"
    /\ ZeroParentBlock
    /\ proc = "exited"
    /\ exitCode = 1

\* C28: the readiness flag is false before startup, the /ready probe answers
\* 200 when the flag is set and 503 when it is not, and once the bootstrap has
\* loaded the store and the server listens the flag becomes true, so that the
\* probe comes to answer 200.
C28_ReadyAfterStartup ==
    /\ [](proc = "start" => ~ready)
    /\ [](answer.op = "ready" => answer.status = IF ready THEN 200 ELSE 503)
    /\ (proc = "serving") ~> ready

\* the block identifiers a superblock file references, in its flat list or in
\* a module of a chapter
ReferencedBlocks(superblock) ==
    (IF superblock.hasBlocks THEN Range(superblock.blocks) ELSE {})
    \cup (IF superblock.hasChapters
          THEN UNION {UNION {Range(superblock.chapters[c].modules[m].blocks) :
                                m \in DOMAIN superblock.chapters[c].modules} :
                         c \in DOMAIN superblock.chapters}
          ELSE {})

\* the block bulk-load has succeeded and no identifier it was given is empty
BlocksLoaded ==
    /\ "loadAllBlocks" \in Range(phases)
    /\ ~(Returned /\ Last(phases) = "loadAllBlocks")
    /\ "" \notin Range(allBlockNames)

\* C29: when the block bulk-load has succeeded with non-empty identifiers,
\* every block a loaded superblock references, in its flat list or in a module,
\* is a key of the loaded block table, validateSuperblockReferences returns
\* success and the call does not return from phase 5; a call that has read a
\* missing block file has returned the loader's error for phase 4.
C29_ReferenceCheckPasses ==
    /\ BlocksLoaded =>
          /\ \A i \in DOMAIN rawSuperblocks :
                ReferencedBlocks(rawSuperblocks[i].v) \subseteq MapKeys(rawBlocks)
          /\ validateSuperblockReferences(rawSuperblocks, rawBlocks).success
          /\ ~(Returned /\ Last(phases) = "validateReferences")
    /\ (\E b \in BlockNames : disk.blocks[b].state = "missing") =>
          /\ Returned
          /\ Last(phases) = "loadAllBlocks"
          /\ ~result.success
          /\ result.error.text = "Failed to load block"
          /\ result.error.field = NoField

\* C29 witness: the reference check has passed over two superblocks, one flat
\* and one with chapters, that reference two blocks
C29_Witness ==
    /\ pc = "phase6"
    /\ BlocksLoaded
    /\ MapSize(rawSuperblocks) = 2
    /\ MapSize(rawBlocks) = 2
    /\ \E i, j \in DOMAIN rawSuperblocks :
          /\ rawSuperblocks[i].v.hasChapters /\ ~rawSuperblocks[i].v.hasBlocks
          /\ rawSuperblocks[j].v.hasBlocks /\ ~rawSuperblocks[j].v.hasChapters

\* a list holds no identifier twice
NoRepeats(names) == \A i, j \in DOMAIN names : names[i] = names[j] => i = j

\* C30: the parent-superblock list of a block, in the reverse index and in the
\* stored block, holds each superblock identifier at most once.
C30_ParentsOnce ==
    /\ \A i \in DOMAIN blockToSuperblocks : NoRepeats(blockToSuperblocks[i].v)
    /\ \A i \in DOMAIN blocks : NoRepeats(blocks[i].v.superblockDashedNames)
    /\ (Returned /\ result.success) =>
           \A i \in DOMAIN result.data.blocks :
               NoRepeats(result.data.blocks[i].v.superblockDashedNames)

====
